---- MODULE Spec2Model ----
(***************************************************************************)
(* A model of the agent orchestration core of                              *)
(* backend/app/services/mcp_style_agent.py: Planner, ToolSelector,         *)
(* Executor, Validator, Synthesizer and MCPStyleAgent.run.                 *)
(*                                                                         *)
(* Python strings are sequences of one-character strings, so that          *)
(* substring tests, str(), strip() and split() are computed, not assumed.  *)
(***************************************************************************)
EXTENDS Integers, Sequences, FiniteSets, TLC

VARIABLES
    entry,            \* which entry point the caller invoked
    pc,               \* position of the thread of control
    available_tools,  \* ToolSelector.available_tools: ToolType -> callable
    plan,             \* the List[PlanStep] handed to execute_plan
    results,          \* execute_plan's local ledger: step_number -> ExecutionResult
    idx,              \* index in plan of the step the for loop is at
    calls,            \* history: the tool invocations made, in order
    deterministic,    \* whether the stubbed tools are functions of their input
    toolMemo,         \* what a deterministic stub returned for an input so far
    callNo,           \* how many times execute_plan was called on this Executor
    firstLedger,      \* the ledger the first call returned
    prepared,         \* what validate_tool_input returned
    query,            \* the user query given to create_plan, the Synthesizer and run
    llm,              \* what the completion capability does for each stage that calls it
    report,           \* the report validate_results returned
    final_response,   \* what synthesize_response returned
    run_result,       \* what MCPStyleAgent.run returned
    exception,        \* the exception that left the Validator or the Synthesizer
    tool_arg,         \* the string a tool of AgentTools is called with directly
    world,            \* what the network answers a tool that asks it
    tool_output,      \* what that tool returned
    runs,             \* the calls of run in progress on one agent, by thread
    web,              \* a call of WebSearchService.search: its locals, the service's fields, the clock
    game              \* the TicTacToeAgent of the API: its game, and the request in progress

\* the variables the Executor never touches
\* the variables of a direct tool call
toolVars == <<tool_arg, world, tool_output>>

\* the variable of the concurrent calls of run
concVars == <<runs>>

\* the variables of the services beside the agent
serviceVars == <<web, game>>

stageVars == <<prepared, query, llm, report, final_response, run_result, exception,
               toolVars, concVars, serviceVars>>

vars == <<entry, pc, available_tools, plan, results, idx, calls,
          deterministic, toolMemo, callNo, firstLedger, stageVars>>

(***************************************************************************)
(* Bounds of the model.                                                    *)
(***************************************************************************)
MaxPlanLen == 3
MaxStepNo == 3

(***************************************************************************)
(* Python strings.                                                         *)
(***************************************************************************)
LowerAlphabet == <<"a","b","c","d","e","f","g","h","i","j","k","l","m","n","o","p","q","r","s","t","u","v","w","x","y","z">>
UpperAlphabet == <<"A","B","C","D","E","F","G","H","I","J","K","L","M","N","O","P","Q","R","S","T","U","V","W","X","Y","Z">>
Digits == <<"0","1","2","3","4","5","6","7","8","9">>
Whitespace == {" ", "\n", "\t"}

\* the None object where a string is expected (no string has a
\* two-character element)
None == <<"None">>

IndexIn(c, alphabet) ==
    IF \E i \in 1..Len(alphabet) : alphabet[i] = c
    THEN CHOOSE i \in 1..Len(alphabet) : alphabet[i] = c
    ELSE 0

\* str.lower()
UpperLetters == {UpperAlphabet[i] : i \in 1..Len(UpperAlphabet)}
LowerOf == [c \in UpperLetters |-> LowerAlphabet[IndexIn(c, UpperAlphabet)]]
LowerChar(c) == IF c \in UpperLetters THEN LowerOf[c] ELSE c
Lower(s) == [i \in 1..Len(s) |-> LowerChar(s[i])]

\* sub in s (the quantifier over a singleton evaluates each argument once)
Contains(sub, s) ==
    \E ss \in {s}, pp \in {sub} :
        \E i \in 0..(Len(ss) - Len(pp)) : \A j \in 1..Len(pp) : ss[i + j] = pp[j]

\* str(n) for an int n
RECURSIVE NatStr(_)
NatStr(n) ==
    IF n < 10 THEN <<Digits[n + 1]>> ELSE NatStr(n \div 10) \o <<Digits[(n % 10) + 1]>>
IntStr(n) == IF n < 0 THEN <<"-">> \o NatStr(0 - n) ELSE NatStr(n)

\* repr(s) for a str s: single quotes unless s holds a single quote and no
\* double quote; backslashes and the chosen quote are escaped
RECURSIVE EscapeQuote(_)
EscapeQuote(s) ==
    IF s = <<>> THEN <<>>
    ELSE (IF Head(s) \in {"'", "\\"} THEN <<"\\", Head(s)>> ELSE <<Head(s)>>)
         \o EscapeQuote(Tail(s))
RECURSIVE EscapeBackslash(_)
EscapeBackslash(s) ==
    IF s = <<>> THEN <<>>
    ELSE (IF Head(s) = "\\" THEN <<"\\", "\\">> ELSE <<Head(s)>>)
         \o EscapeBackslash(Tail(s))
Repr(s) ==
    IF Contains(<<"'">>, s) /\ ~Contains(<<"\"">>, s)
    THEN <<"\"">> \o EscapeBackslash(s) \o <<"\"">>
    ELSE <<"'">> \o EscapeQuote(s) \o <<"'">>

\* str.strip()
RECURSIVE LStrip(_)
LStrip(s) == IF s # <<>> /\ Head(s) \in Whitespace THEN LStrip(Tail(s)) ELSE s
RECURSIVE RStrip(_)
RStrip(s) ==
    IF s # <<>> /\ s[Len(s)] \in Whitespace THEN RStrip(SubSeq(s, 1, Len(s) - 1)) ELSE s
Strip(s) == RStrip(LStrip(s))

\* str.split(): the maximal runs of non-whitespace characters, in order
RECURSIVE SplitFrom(_, _, _)
SplitFrom(s, i, word) ==
    IF i > Len(s) THEN (IF word = <<>> THEN <<>> ELSE <<word>>)
    ELSE IF s[i] \in Whitespace
         THEN (IF word = <<>> THEN <<>> ELSE <<word>>) \o SplitFrom(s, i + 1, <<>>)
         ELSE SplitFrom(s, i + 1, Append(word, s[i]))
Split(s) == SplitFrom(s, 1, <<>>)

(***************************************************************************)
(* Data structures.                                                        *)
(***************************************************************************)
\* the names of the members of enum ToolType
ToolType == {"SEARCH", "CALCULATOR", "TEXT_ANALYZER", "FINANCIAL_DATA", "COMMODITY_PRICE", "NONE"}

\* step_number_is_int: the model's step_number is always a number; a PlanStep
\* built from a JSON "step" that is a list (which no dict takes as a key)
\* has this flag FALSE
PlanStep(n, d, t, deps, inp) ==
    [step_number |-> n, step_number_is_int |-> TRUE, description |-> d,
     required_tool |-> t, dependencies |-> deps, tool_input |-> inp]

\* ExecutionResult.output is None
NoneOutput == [kind |-> "None"]

ExecutionResult(n, s, out, err) ==
    [step_number |-> n, success |-> s, output |-> out, error |-> err]

(***************************************************************************)
(* str(output) for the values a step's output can be.                      *)
(***************************************************************************)
PassThroughOutput(tool_input) == [kind |-> "passthrough", input |-> tool_input]

\* str() of a dict prints its items in insertion order, each key and each
\* str value by repr()
PyStr(output) ==
    CASE output.kind = "passthrough" ->
            <<"{","'","m","e","s","s","a","g","e","'",":"," ","'","N","o"," ","t","o","o","l"," ","e","x","e","c","u","t","i","o","n"," ","n","e","e","d","e","d","'",","," ","'","i","n","p","u","t","'",":"," ">>
            \o Repr(output.input) \o <<"}">>
      [] output.kind = "stub" -> output.text
      [] output.kind = "calculator" /\ output.success /\ output.result_type = "int" ->
            <<"{","'","e","x","p","r","e","s","s","i","o","n","'",":"," ">>
            \o Repr(output.expression)
            \o <<",", " ", "'","r","e","s","u","l","t","'",":"," ">>
            \o IntStr(output.result)
            \o <<",", " ", "'","s","u","c","c","e","s","s","'",":"," ","T","r","u","e","}">>
      [] output.kind = "calculator" /\ ~output.success ->
            <<"{","'","e","x","p","r","e","s","s","i","o","n","'",":"," ">>
            \o Repr(output.expression)
            \o <<","," ","'","r","e","s","u","l","t","'",":"," ","N","o","n","e",","," ","'","s","u","c","c","e","s","s","'",":"," ","F","a","l","s","e",","," ","'","e","r","r","o","r","'",":"," ">>
            \o Repr(output.error) \o <<"}">>
      [] output.kind = "None" -> <<"N","o","n","e">>

(***************************************************************************)
(* AgentTools.calculator.  Sums, differences and products of decimal       *)
(* integer literals are evaluated directly; every other cleaned expression *)
(* goes through EvalExpression.                                            *)
(***************************************************************************)
CalcRegexKept == {"0","1","2","3","4","5","6","7","8","9","+","-","*","/","(",")","."," ","\n","\t"}
CalcAllowedChars == {"0","1","2","3","4","5","6","7","8","9","+","-","*","/","(",")","."," "}

\* re.sub(r'[^0-9+\-*/().\s]', '', expression)
CalcClean(expression) == SelectSeq(expression, LAMBDA c : c \in CalcRegexKept)

IsDigit(c) == IndexIn(c, Digits) # 0
DigitVal(c) == IndexIn(c, Digits) - 1

\* the tokens of a cleaned expression: integer literals and operator characters
RECURSIVE Tokenize(_, _, _)
Tokenize(s, i, lit) ==
    LET flush == IF lit = <<>> THEN <<>> ELSE <<[t |-> "num", text |-> lit]>>
    IN  IF i > Len(s) THEN flush
        ELSE IF IsDigit(s[i]) THEN Tokenize(s, i + 1, Append(lit, s[i]))
        ELSE IF s[i] = " " THEN flush \o Tokenize(s, i + 1, <<>>)
        ELSE flush \o <<[t |-> "op", text |-> <<s[i]>>]>> \o Tokenize(s, i + 1, <<>>)

RECURSIVE LitVal(_)
LitVal(lit) ==
    IF lit = <<>> THEN 0 ELSE 10 * LitVal(SubSeq(lit, 1, Len(lit) - 1)) + DigitVal(lit[Len(lit)])

\* a decimal integer literal Python accepts: no leading zero unless all zeros
IsIntLiteral(tok) ==
    /\ tok.t = "num"
    /\ (tok.text[1] = "0" => \A i \in 1..Len(tok.text) : tok.text[i] = "0")

\* num (op num)* with op in + - *
IsSimpleArith(toks) ==
    /\ Len(toks) % 2 = 1
    /\ \A i \in 1..Len(toks) :
          IF i % 2 = 1 THEN IsIntLiteral(toks[i])
          ELSE toks[i].t = "op" /\ toks[i].text \in {<<"+">>, <<"-">>, <<"*">>}

\* term: num (* num)*, toks[lo..hi]
RECURSIVE EvalTerm(_, _, _)
EvalTerm(toks, lo, hi) ==
    IF lo = hi THEN LitVal(toks[hi].text)
    ELSE EvalTerm(toks, lo, hi - 2) * LitVal(toks[hi].text)

\* the last + or - of toks[1..hi] splits the sum (left associative)
RECURSIVE EvalSum(_, _)
EvalSum(toks, hi) ==
    LET adds == {i \in 1..hi : toks[i].t = "op" /\ toks[i].text \in {<<"+">>, <<"-">>}}
    IN  IF adds = {} THEN EvalTerm(toks, 1, hi)
        ELSE LET k == CHOOSE i \in adds : \A j \in adds : j <= i
             IN  IF toks[k].text = <<"+">>
                 THEN EvalSum(toks, k - 1) + EvalTerm(toks, k + 1, hi)
                 ELSE EvalSum(toks, k - 1) - EvalTerm(toks, k + 1, hi)

(***************************************************************************)
(* eval() on a cleaned expression in general.  The characters that reach   *)
(* eval are 0-9 + - * / ( ) . and the space, so the expressions are those  *)
(* of Python's grammar over number literals, the empty tuple (), the       *)
(* Ellipsis literal, unary and binary arithmetic and calls.  A float is    *)
(* kept as an exact fraction num/den when the model knows its value        *)
(* (known), and otherwise only as known or not known to be nonzero.        *)
(***************************************************************************)
PyInt(n) == [t |-> "int", n |-> n]
PyTuple == [t |-> "tuple"]
PyEllipsis == [t |-> "ellipsis"]
PyComplex == [t |-> "complex"]
PyExc(class) == [t |-> "exc", class |-> class]
UnknownFloat(nonzero) == [t |-> "float", known |-> FALSE, nonzero |-> nonzero]

Abs(n) == IF n < 0 THEN 0 - n ELSE n

RECURSIVE GCD(_, _)
GCD(a, b) == IF b = 0 THEN a ELSE GCD(b, a % b)

RECURSIVE IsPow2(_)
IsPow2(d) == d = 1 \/ (d % 2 = 0 /\ IsPow2(d \div 2))

\* the float nearest to num/den (den # 0): the fraction itself when a
\* double holds it exactly
FloatOf(num, den) ==
    LET n == IF den < 0 THEN 0 - num ELSE num
        d == Abs(den)
        g == GCD(Abs(n), d)
    IN  IF IsPow2(d \div g)
        THEN [t |-> "float", known |-> TRUE, num |-> n \div g, den |-> d \div g]
        ELSE UnknownFloat(TRUE)

IsNum(v) == v.t \in {"int", "float"}
IsKnown(v) == v.t = "int" \/ (v.t = "float" /\ v.known)
Num(v) == IF v.t = "int" THEN v.n ELSE v.num
Den(v) == IF v.t = "int" THEN 1 ELSE v.den
IsZero(v) == IsKnown(v) /\ Num(v) = 0
SurelyNonzero(v) == IF IsKnown(v) THEN Num(v) # 0 ELSE v.nonzero

RECURSIVE IntPow(_, _)
IntPow(b, e) == IF e = 0 THEN 1 ELSE b * IntPow(b, e - 1)

\* floor(num/den), den > 0
FloorRat(num, den) ==
    IF num >= 0 THEN num \div den ELSE 0 - ((0 - num + den - 1) \div den)

PyNeg(v) ==
    CASE v.t = "exc" -> v
      [] v.t = "int" -> PyInt(0 - v.n)
      [] v.t = "float" /\ v.known -> FloatOf(0 - v.num, v.den)
      [] v.t = "float" /\ ~v.known -> v
      [] v.t \in {"tuple", "ellipsis"} -> PyExc("TypeError")

PyPos(v) ==
    CASE v.t = "exc" -> v
      [] IsNum(v) -> v
      [] v.t \in {"tuple", "ellipsis"} -> PyExc("TypeError")

PyAdd(a, b, sign) ==
    IF a.t = "int" /\ b.t = "int" THEN PyInt(a.n + sign * b.n)
    ELSE IF IsKnown(a) /\ IsKnown(b)
    THEN FloatOf(Num(a) * Den(b) + sign * Num(b) * Den(a), Den(a) * Den(b))
    ELSE UnknownFloat(FALSE)

PyMul(a, b) ==
    IF a.t = "int" /\ b.t = "int" THEN PyInt(a.n * b.n)
    ELSE IF IsKnown(a) /\ IsKnown(b) THEN FloatOf(Num(a) * Num(b), Den(a) * Den(b))
    ELSE IF IsZero(a) \/ IsZero(b) THEN FloatOf(0, 1)
    ELSE UnknownFloat(SurelyNonzero(a) /\ SurelyNonzero(b))

\* a divisor the model cannot tell from zero leaves the quotient undefined
PyTrueDiv(a, b) ==
    CASE IsZero(b) -> PyExc("ZeroDivisionError")
      [] IsKnown(b) /\ ~IsZero(b) /\ IsKnown(a) -> FloatOf(Num(a) * Den(b), Den(a) * Num(b))
      [] SurelyNonzero(b) /\ IsZero(a) -> FloatOf(0, 1)
      [] SurelyNonzero(b) /\ ~IsZero(a) /\ ~(IsKnown(a) /\ IsKnown(b)) ->
            UnknownFloat(SurelyNonzero(a))

PyFloorDiv(a, b) ==
    CASE IsZero(b) -> PyExc("ZeroDivisionError")
      [] IsKnown(b) /\ ~IsZero(b) /\ IsKnown(a) ->
            LET num == Num(a) * Den(b)
                den == Den(a) * Num(b)
                q == IF den < 0 THEN FloorRat(0 - num, 0 - den) ELSE FloorRat(num, den)
            IN  IF a.t = "int" /\ b.t = "int" THEN PyInt(q) ELSE FloatOf(q, 1)
      [] SurelyNonzero(b) /\ ~(IsKnown(a) /\ IsKnown(b)) -> UnknownFloat(FALSE)

\* a ** b for an exponent of integer value e
PyPowInt(a, e, float_result) ==
    CASE e >= 0 /\ a.t = "int" /\ ~float_result -> PyInt(IntPow(a.n, e))
      [] e >= 0 /\ IsKnown(a) /\ (a.t = "float" \/ float_result) ->
            FloatOf(IntPow(Num(a), e), IntPow(Den(a), e))
      [] e = 0 /\ ~IsKnown(a) -> FloatOf(1, 1)
      [] e > 0 /\ ~IsKnown(a) -> UnknownFloat(a.nonzero)
      [] e < 0 /\ IsZero(a) -> PyExc("ZeroDivisionError")
      [] e < 0 /\ IsKnown(a) /\ ~IsZero(a) ->
            FloatOf(IntPow(Den(a), 0 - e), IntPow(Num(a), 0 - e))
      [] e < 0 /\ ~IsKnown(a) /\ a.nonzero -> UnknownFloat(TRUE)

\* a fractional exponent: a negative base gives a complex number
PyPowFrac(a, b) ==
    CASE IsZero(a) /\ Num(b) > 0 -> FloatOf(0, 1)
      [] IsZero(a) /\ Num(b) < 0 -> PyExc("ZeroDivisionError")
      [] IsKnown(a) /\ Num(a) < 0 -> PyComplex
      [] IsKnown(a) /\ Num(a) > 0 -> UnknownFloat(TRUE)

PyPow(a, b) ==
    CASE b.t = "int" -> PyPowInt(a, b.n, FALSE)
      [] b.t = "float" /\ b.known /\ b.den = 1 -> PyPowInt(a, b.num, TRUE)
      [] b.t = "float" /\ b.known /\ b.den # 1 -> PyPowFrac(a, b)
      [] b.t = "float" /\ ~b.known /\ IsKnown(a) /\ Num(a) > 0 -> UnknownFloat(TRUE)

\* a op b once both operands are evaluated.  Arithmetic on a complex
\* operand is left undefined.
PyBinOp(op, a, b) ==
    CASE a.t = "exc" -> a
      [] a.t # "exc" /\ b.t = "exc" -> b
      [] a.t \notin {"exc", "complex"} /\ b.t \notin {"exc", "complex"} ->
            CASE IsNum(a) /\ IsNum(b) ->
                    (CASE op = "+" -> PyAdd(a, b, 1)
                       [] op = "-" -> PyAdd(a, b, 0 - 1)
                       [] op = "*" -> PyMul(a, b)
                       [] op = "/" -> PyTrueDiv(a, b)
                       [] op = "//" -> PyFloorDiv(a, b)
                       [] op = "**" -> PyPow(a, b))
              [] a.t = "tuple" /\ b.t = "tuple" /\ op = "+" -> PyTuple
              [] a.t = "tuple" /\ b.t = "int" /\ op = "*" -> PyTuple
              [] a.t = "int" /\ b.t = "tuple" /\ op = "*" -> PyTuple
              [] OTHER -> PyExc("TypeError")

\* callee(arg): no value of these expressions is callable
PyCall(callee, arg) ==
    IF callee.t = "exc" THEN callee
    ELSE IF arg.t = "exc" THEN arg
    ELSE PyExc("TypeError")

\* the index after the digits that start at s[i]
RECURSIVE ScanDigits(_, _)
ScanDigits(s, i) == IF i <= Len(s) /\ IsDigit(s[i]) THEN ScanDigits(s, i + 1) ELSE i

CharAt(s, i) == IF i <= Len(s) THEN s[i] ELSE ""

\* Python's tokens of a cleaned expression from s[i] on: number literals
\* (int, or float with a point), the operators, the Ellipsis and the lone
\* point
RECURSIVE PyTokens(_, _)
PyTokens(s, i) ==
    IF i > Len(s) THEN <<>>
    ELSE IF s[i] = " " THEN PyTokens(s, i + 1)
    ELSE IF IsDigit(s[i]) THEN
        LET j == ScanDigits(s, i)
        IN  IF CharAt(s, j) = "."
            THEN LET k == ScanDigits(s, j + 1)
                 IN  <<[t |-> "num", float |-> TRUE, whole |-> SubSeq(s, i, j - 1),
                        frac |-> SubSeq(s, j + 1, k - 1)]>> \o PyTokens(s, k)
            ELSE <<[t |-> "num", float |-> FALSE, whole |-> SubSeq(s, i, j - 1),
                    frac |-> <<>>]>> \o PyTokens(s, j)
    ELSE IF s[i] = "." THEN
        IF IsDigit(CharAt(s, i + 1))
        THEN LET k == ScanDigits(s, i + 1)
             IN  <<[t |-> "num", float |-> TRUE, whole |-> <<>>,
                    frac |-> SubSeq(s, i + 1, k - 1)]>> \o PyTokens(s, k)
        ELSE IF CharAt(s, i + 1) = "." /\ CharAt(s, i + 2) = "."
        THEN <<[t |-> "ellipsis"]>> \o PyTokens(s, i + 3)
        ELSE <<[t |-> "dot"]>> \o PyTokens(s, i + 1)
    ELSE IF s[i] \in {"*", "/"} /\ CharAt(s, i + 1) = s[i]
    THEN <<[t |-> "op", op |-> IF s[i] = "*" THEN "**" ELSE "//"]>> \o PyTokens(s, i + 2)
    ELSE <<[t |-> "op", op |-> s[i]]>> \o PyTokens(s, i + 1)

\* the value of a number literal
NumberValue(tok) ==
    IF tok.float
    THEN LET scale == IntPow(10, Len(tok.frac))
         IN  FloatOf(LitVal(tok.whole) * scale + LitVal(tok.frac), scale)
    ELSE PyInt(LitVal(tok.whole))

\* an int literal with a leading zero is a syntax error unless all zeros
ValidNumber(tok) ==
    tok.float \/ tok.whole[1] # "0" \/ \A i \in 1..Len(tok.whole) : tok.whole[i] = "0"

IsOp(ts, p, ops) == p <= Len(ts) /\ ts[p].t = "op" /\ ts[p].op \in ops

SyntaxError == [ok |-> FALSE]
Parsed(v, p) == [ok |-> TRUE, v |-> v, p |-> p]

\* Python's expression grammar: sum, term, factor, power, primary and atom.
\* Parse(rule, ts, p, acc) reads ts from position p by the rule and gives
\* the value and the position after it, or a syntax error; acc is the left
\* operand, or the callee, that the rules sum_rest, term_rest and trailers
\* continue from.  Operands are evaluated left to right and an exception of
\* an operand is the value of the expression.
RECURSIVE Parse(_, _, _, _)
Parse(rule, ts, p, acc) ==
    CASE rule = "sum" ->
            LET l == Parse("term", ts, p, acc)
            IN  IF ~l.ok THEN l ELSE Parse("sum_rest", ts, l.p, l.v)
      [] rule = "sum_rest" ->
            IF IsOp(ts, p, {"+", "-"})
            THEN LET r == Parse("term", ts, p + 1, acc)
                 IN  IF ~r.ok THEN r
                     ELSE Parse("sum_rest", ts, r.p, PyBinOp(ts[p].op, acc, r.v))
            ELSE Parsed(acc, p)
      [] rule = "term" ->
            LET l == Parse("factor", ts, p, acc)
            IN  IF ~l.ok THEN l ELSE Parse("term_rest", ts, l.p, l.v)
      [] rule = "term_rest" ->
            IF IsOp(ts, p, {"*", "/", "//"})
            THEN LET r == Parse("factor", ts, p + 1, acc)
                 IN  IF ~r.ok THEN r
                     ELSE Parse("term_rest", ts, r.p, PyBinOp(ts[p].op, acc, r.v))
            ELSE Parsed(acc, p)
      [] rule = "factor" ->
            IF IsOp(ts, p, {"+", "-"})
            THEN LET f == Parse("factor", ts, p + 1, acc)
                 IN  IF ~f.ok THEN f
                     ELSE Parsed(IF ts[p].op = "-" THEN PyNeg(f.v) ELSE PyPos(f.v), f.p)
            ELSE LET a == Parse("primary", ts, p, acc)
                 IN  IF a.ok /\ IsOp(ts, a.p, {"**"})
                     THEN LET e == Parse("factor", ts, a.p + 1, acc)
                          IN  IF ~e.ok THEN e ELSE Parsed(PyBinOp("**", a.v, e.v), e.p)
                     ELSE a
      [] rule = "primary" ->
            LET a == Parse("atom", ts, p, acc)
            IN  IF ~a.ok THEN a ELSE Parse("trailers", ts, a.p, a.v)
      \* call trailers: (), (expr), (*expr) or (**expr)
      [] rule = "trailers" ->
            IF IsOp(ts, p, {"("})
            THEN IF IsOp(ts, p + 1, {")"})
                 THEN Parse("trailers", ts, p + 2, PyCall(acc, PyTuple))
                 ELSE LET q == IF IsOp(ts, p + 1, {"*", "**"}) THEN p + 2 ELSE p + 1
                          arg == Parse("sum", ts, q, acc)
                      IN  IF arg.ok /\ IsOp(ts, arg.p, {")"})
                          THEN Parse("trailers", ts, arg.p + 1, PyCall(acc, arg.v))
                          ELSE SyntaxError
            ELSE Parsed(acc, p)
      [] rule = "atom" ->
            IF p > Len(ts) THEN SyntaxError
            ELSE IF ts[p].t = "num"
            THEN IF ValidNumber(ts[p]) THEN Parsed(NumberValue(ts[p]), p + 1)
                 ELSE SyntaxError
            ELSE IF ts[p].t = "ellipsis" THEN Parsed(PyEllipsis, p + 1)
            ELSE IF IsOp(ts, p, {"("})
            THEN IF IsOp(ts, p + 1, {")"}) THEN Parsed(PyTuple, p + 2)
                 ELSE LET e == Parse("sum", ts, p + 1, acc)
                      IN  IF e.ok /\ IsOp(ts, e.p, {")"}) THEN Parsed(e.v, e.p + 1)
                          ELSE SyntaxError
            ELSE SyntaxError

\* str(e) of the exception eval raised.  The wording is the interpreter's;
\* the model keeps the class of the exception as the message.
ExcMessage(class) == <<class>>

\* the outcome of eval on any cleaned expression.  A syntax error is found
\* before anything is evaluated.
EvalExpression(cleaned_expr) ==
    LET ts == PyTokens(cleaned_expr, 1)
        r == Parse("sum", ts, 1, PyTuple)
    IN  IF ~r.ok \/ r.p # Len(ts) + 1
        THEN [raises |-> TRUE, message |-> ExcMessage("SyntaxError")]
        ELSE IF r.v.t = "exc"
        THEN [raises |-> TRUE, message |-> ExcMessage(r.v.class)]
        ELSE [raises |-> FALSE, type |-> r.v.t,
              value |-> IF r.v.t = "int" THEN r.v.n ELSE r.v]

\* eval(cleaned_expr, {"__builtins__": {}}, {})
PyEval(cleaned_expr) ==
    LET toks == Tokenize(cleaned_expr, 1, <<>>)
    IN  CASE IsSimpleArith(toks) ->
                [raises |-> FALSE, type |-> "int", value |-> EvalSum(toks, Len(toks))]
          [] OTHER -> EvalExpression(cleaned_expr)

InvalidCharacters == <<"I","n","v","a","l","i","d"," ","c","h","a","r","a","c","t","e","r","s"," ","i","n"," ","e","x","p","r","e","s","s","i","o","n">>

calculator(expression) ==
    LET stripped == Strip(expression)
        cleaned_expr == CalcClean(stripped)
    IN  IF \E i \in 1..Len(cleaned_expr) : cleaned_expr[i] \notin CalcAllowedChars
        THEN [kind |-> "calculator", expression |-> stripped, result |-> None,
              result_type |-> "NoneType", success |-> FALSE, error |-> InvalidCharacters]
        ELSE LET r == PyEval(cleaned_expr)
             IN  IF r.raises
                 THEN [kind |-> "calculator", expression |-> stripped, result |-> None,
                       result_type |-> "NoneType", success |-> FALSE, error |-> r.message]
                 ELSE [kind |-> "calculator", expression |-> stripped, result |-> r.value,
                       result_type |-> r.type, success |-> TRUE, error |-> None]

(***************************************************************************)
(* AgentTools.text_analyzer (the fields the claims speak of).              *)
(***************************************************************************)
\* mutant: the last word of maximal length
LongestWord_Last(words) ==
    IF words = <<>> THEN <<>>
    ELSE words[CHOOSE i \in 1..Len(words) :
                  /\ \A j \in 1..Len(words) : Len(words[j]) <= Len(words[i])
                  /\ \A j \in (i + 1)..Len(words) : Len(words[j]) < Len(words[i])]

\* max(words, key=len): the first word of maximal length
LongestWord(words) ==
    IF words = <<>> THEN <<>>
    ELSE words[CHOOSE i \in 1..Len(words) :
                  /\ \A j \in 1..Len(words) : Len(words[j]) <= Len(words[i])
                  /\ \A j \in 1..(i - 1) : Len(words[j]) < Len(words[i])]

text_analyzer(text) ==
    LET words == Split(text)
    IN  [kind |-> "text_analyzer",
         text_length |-> Len(text),
         text_length_no_spaces |-> Len(SelectSeq(text, LAMBDA c : c # " ")),
         word_count |-> Len(words),
         unique_words |-> Cardinality({Lower(words[i]) : i \in 1..Len(words)}),
         longest_word |-> LongestWord(words),
         longest_word_length |-> Len(LongestWord(words))]

(***************************************************************************)
(* ToolSelector.                                                           *)
(***************************************************************************)
\* the callables a registry entry can hold: the two in-process tools, and a
\* stub standing for a network-backed tool or a test double
RegisteredTypes == ToolType \ {"NONE"}
RealRegistry ==
    [t \in RegisteredTypes |->
        CASE t = "CALCULATOR" -> "calculator"
          [] t = "TEXT_ANALYZER" -> "text_analyzer"
          [] OTHER -> "stub"]
StubRegistry == [t \in RegisteredTypes |-> "stub"]

\* no callable
NoTool == "None"

select_tool(step, registry) ==
    IF step.required_tool = "NONE" THEN NoTool
    ELSE IF step.required_tool \in DOMAIN registry THEN registry[step.required_tool]
    ELSE NoTool

\* f"step {dep_step}"
Placeholder(dep_step) == <<"s","t","e","p"," ">> \o IntStr(dep_step)

\* the loop of validate_tool_input from the i-th dependency on
RECURSIVE PrepareFrom(_, _, _, _)
PrepareFrom(input_str, dependencies, i, previous_results) ==
    IF i > Len(dependencies) THEN input_str
    ELSE LET dep_step == dependencies[i]
         IN  IF /\ dep_step \in DOMAIN previous_results
                /\ previous_results[dep_step].success
                /\ Contains(Placeholder(dep_step), Lower(input_str))
             THEN PrepareFrom(PyStr(previous_results[dep_step].output),
                              dependencies, i + 1, previous_results)
             ELSE PrepareFrom(input_str, dependencies, i + 1, previous_results)

validate_tool_input(step, previous_results) ==
    PrepareFrom(step.tool_input, step.dependencies, 1, previous_results)

(***************************************************************************)
(* Executor.execute_plan.                                                  *)
(***************************************************************************)
\* results[step_number] = result
Put(ledger, n, result) ==
    [k \in (DOMAIN ledger) \cup {n} |-> IF k = n THEN result ELSE ledger[k]]

EmptyLedger == <<>>

\* mutant: only `dep not in results` is tested, not results[dep].success
FirstBadDep_MissingOnly(step, ledger) ==
    LET bad == {i \in 1..Len(step.dependencies) : step.dependencies[i] \notin DOMAIN ledger}
    IN  IF bad = {} THEN 0
        ELSE step.dependencies[CHOOSE i \in bad : \A j \in bad : i <= j]

\* mutant: the dependencies are not checked at all
FirstBadDep_Unchecked(step, ledger) == 0

\* mutant: only a dependency that has failed raises; one that is not in the
\* ledger yet is let through
FirstBadDep_FailedOnly(step, ledger) ==
    LET bad == {i \in 1..Len(step.dependencies) :
                   /\ step.dependencies[i] \in DOMAIN ledger
                   /\ ~ledger[step.dependencies[i]].success}
    IN  IF bad = {} THEN 0
        ELSE step.dependencies[CHOOSE i \in bad : \A j \in bad : i <= j]

\* mutant: a failed entry anywhere in the ledger fails the step, dependency
\* or not
FirstBadDep_AnyFailure(step, ledger) ==
    LET bad == {i \in 1..Len(step.dependencies) :
                   \/ step.dependencies[i] \notin DOMAIN ledger
                   \/ ~ledger[step.dependencies[i]].success}
        failed == {n \in DOMAIN ledger : ~ledger[n].success}
    IN  IF bad # {} THEN step.dependencies[CHOOSE i \in bad : \A j \in bad : i <= j]
        ELSE IF failed # {} THEN CHOOSE n \in failed : \A k \in failed : n <= k
        ELSE 0

\* the first dependency, in declared order, that is absent from the ledger or
\* failed; 0 when there is none
FirstBadDep(step, ledger) ==
    LET bad == {i \in 1..Len(step.dependencies) :
                   \/ step.dependencies[i] \notin DOMAIN ledger
                   \/ ~ledger[step.dependencies[i]].success}
    IN  IF bad = {} THEN 0
        ELSE step.dependencies[CHOOSE i \in bad : \A j \in bad : i <= j]

\* str(ValueError(f"Dependency step {dep} failed or not completed"))
DependencyError(dep) ==
    <<"D","e","p","e","n","d","e","n","c","y"," ","s","t","e","p"," ">> \o IntStr(dep)
    \o <<" ","f","a","i","l","e","d"," ","o","r"," ","n","o","t"," ","c","o","m","p","l","e","t","e","d">>

FailedResult(step, message) == ExecutionResult(step.step_number, FALSE, NoneOutput, message)

\* mutant: success is what the tool's own result reports
StoredResult_ToolsOwn(step, output) ==
    ExecutionResult(step.step_number,
                    IF output.kind \in {"stub", "calculator"} THEN output.success ELSE TRUE,
                    output, None)

\* the try branch: whatever the tool returned, success is True
StoredResult(step, output) == ExecutionResult(step.step_number, TRUE, output, None)

\* str(TypeError) of results[step.step_number] = result for a list key
UnhashableError == <<"u","n","h","a","s","h","a","b","l","e"," ","t","y","p","e",":"," ","'","l","i","s","t","'">>

\* mutant: the exception is raised again instead of being recorded
ExceptBranch_Reraise(step, message, ledger) == [results |-> ledger, propagates |-> TRUE]

\* except Exception as e: store the failed result; the store itself raises for
\* a key that is not hashable, and that exception leaves execute_plan
ExceptBranch(step, message, ledger) ==
    IF step.step_number_is_int
    THEN [results |-> Put(ledger, step.step_number, FailedResult(step, message)),
          propagates |-> FALSE]
    ELSE [results |-> ledger, propagates |-> TRUE]

\* the end of the try body: results[step.step_number] = result
TryStore(step, output, ledger) ==
    IF step.step_number_is_int
    THEN [results |-> Put(ledger, step.step_number, StoredResult(step, output)),
          propagates |-> FALSE]
    ELSE ExceptBranch(step, UnhashableError, ledger)

\* a stub's return value: its str(), the success it reports, and whether
\* json.dumps accepts it
StubOutput(text, success, json) ==
    [kind |-> "stub", text |-> text, success |-> success, json |-> json]

\* what a stub may do when called: raise, or return a value that reports
\* its own success or failure, or one that JSON cannot encode
StubBoom == <<"b","o","o","m">>
StubOutcomes ==
    { [raises |-> TRUE, message |-> StubBoom],
      [raises |-> FALSE, output |-> StubOutput(<<"o","k">>, TRUE, TRUE)],
      [raises |-> FALSE, output |-> StubOutput(<<"n","o">>, FALSE, TRUE)],
      [raises |-> FALSE, output |-> StubOutput(<<"o","b","j">>, TRUE, FALSE)] }

\* what calling tool_func(tool_input) can do
ToolOutcomes(tool_func, tool_input) ==
    CASE tool_func = "calculator" -> {[raises |-> FALSE, output |-> calculator(tool_input)]}
      [] tool_func = "text_analyzer" -> {[raises |-> FALSE, output |-> text_analyzer(tool_input)]}
      [] tool_func = "stub" ->
            IF deterministic /\ <<tool_func, tool_input>> \in DOMAIN toolMemo
            THEN {toolMemo[<<tool_func, tool_input>>]}
            ELSE StubOutcomes

Remember(memo, key, outcome) ==
    IF deterministic
    THEN [k \in (DOMAIN memo) \cup {key} |-> IF k = key THEN outcome ELSE memo[k]]
    ELSE memo

\* mutant: the ledger is kept on the Executor from one call to the next
ExecInitialLedger_Keep(old) == old

\* results: Dict[int, ExecutionResult] = {}
ExecInitialLedger(old) == EmptyLedger

\* the caller enters execute_plan(plan)
ExecBegin ==
    /\ pc = "exec_call"
    /\ pc' = "exec_loop"
    /\ results' = ExecInitialLedger(results)
    /\ idx' = 1
    /\ calls' = <<>>
    /\ callNo' = callNo + 1
    /\ UNCHANGED stageVars
    /\ UNCHANGED <<entry, available_tools, plan, deterministic, toolMemo, firstLedger>>

\* where the loop goes after an iteration
AfterStep(r) == IF r.propagates THEN "exec_raised" ELSE "exec_loop"

\* one iteration of the for loop whose dependency check raises ValueError
ExecDepFail ==
    /\ pc = "exec_loop"
    /\ idx <= Len(plan)
    /\ LET step == plan[idx]
       IN  /\ FirstBadDep(step, results) # 0
           /\ \E r \in {ExceptBranch(step, DependencyError(FirstBadDep(step, results)), results)} :
                 /\ results' = r.results
                 /\ pc' = AfterStep(r)
    /\ idx' = idx + 1
    /\ UNCHANGED stageVars
    /\ UNCHANGED <<entry, available_tools, plan, calls, deterministic, toolMemo,
                   callNo, firstLedger>>

\* one iteration where select_tool returned None: pass-through
ExecNoTool ==
    /\ pc = "exec_loop"
    /\ idx <= Len(plan)
    /\ LET step == plan[idx]
       IN  /\ FirstBadDep(step, results) = 0
           /\ select_tool(step, available_tools) = NoTool
           /\ \E tool_input \in {validate_tool_input(step, results)} :
              \E r \in {TryStore(step, PassThroughOutput(tool_input), results)} :
                 /\ results' = r.results
                 /\ pc' = AfterStep(r)
    /\ idx' = idx + 1
    /\ UNCHANGED stageVars
    /\ UNCHANGED <<entry, available_tools, plan, calls, deterministic, toolMemo,
                   callNo, firstLedger>>

\* one iteration where a tool is called: it returns, or it raises and the
\* except branch records the failure
ExecTool ==
    /\ pc = "exec_loop"
    /\ idx <= Len(plan)
    /\ LET step == plan[idx]
           tool_func == select_tool(step, available_tools)
       IN  /\ FirstBadDep(step, results) = 0
           /\ tool_func # NoTool
           /\ \E tool_input \in {validate_tool_input(step, results)} :
              \E o \in ToolOutcomes(tool_func, tool_input) :
              \E r \in {IF o.raises THEN ExceptBranch(step, o.message, results)
                        ELSE TryStore(step, o.output, results)} :
                 /\ results' = r.results
                 /\ pc' = AfterStep(r)
                 /\ toolMemo' = IF tool_func = "stub"
                                THEN Remember(toolMemo, <<tool_func, tool_input>>, o)
                                ELSE toolMemo
                 /\ calls' = Append(calls, [index |-> idx, tool |-> step.required_tool,
                                            input |-> tool_input])
    /\ idx' = idx + 1
    /\ UNCHANGED stageVars
    /\ UNCHANGED <<entry, available_tools, plan, deterministic, callNo, firstLedger>>

\* the loop is over: return results
ExecReturn ==
    /\ pc = "exec_loop"
    /\ idx > Len(plan)
    /\ pc' = "exec_returned"
    /\ firstLedger' = IF callNo = 1 THEN results ELSE firstLedger
    /\ UNCHANGED stageVars
    /\ UNCHANGED <<entry, available_tools, plan, results, idx, calls, deterministic,
                   toolMemo, callNo>>

\* the caller calls execute_plan again, same Executor, same plan
ExecAgain ==
    /\ entry = "execute_plan"
    /\ pc = "exec_returned"
    /\ callNo = 1
    /\ deterministic
    /\ pc' = "exec_call"
    /\ UNCHANGED stageVars
    /\ UNCHANGED <<entry, available_tools, plan, results, idx, calls, deterministic,
                   toolMemo, callNo, firstLedger>>

(***************************************************************************)
(* The plans execute_plan is called with directly.                         *)
(***************************************************************************)
ResultFromStep1 == <<"r","e","s","u","l","t"," ","f","r","o","m"," ","s","t","e","p"," ","1">>
Desc == <<"d">>

\* increasing lists of at most two step numbers below MaxStepNo
DepLists ==
    {<<>>} \cup {<<a>> : a \in 1..(MaxStepNo - 1)}
    \cup {d \in (1..(MaxStepNo - 1)) \X (1..(MaxStepNo - 1)) : d[1] < d[2]}

ExecSteps ==
    {PlanStep(n, Desc, t, deps, ResultFromStep1) :
        n \in 1..MaxStepNo, t \in {"NONE", "SEARCH"}, deps \in DepLists}

RECURSIVE SeqsUpTo(_, _)
SeqsUpTo(S, n) ==
    IF n = 0 THEN {<<>>}
    ELSE SeqsUpTo(S, n - 1) \cup {Append(p, x) : p \in {q \in SeqsUpTo(S, n - 1) : Len(q) = n - 1}, x \in S}

\* demo_manual_plan_execution and demo_complex_plan of demo_mcp_style_agent.py
DemoManualPlan ==
    << PlanStep(1, <<"c","a","l","c">>, "CALCULATOR", <<>>, <<"1","0","0"," ","+"," ","5","0">>),
       PlanStep(2, <<"a","n","a","l","y","z","e">>, "TEXT_ANALYZER", <<1>>, ResultFromStep1) >>
DemoComplexPlan ==
    << PlanStep(1, <<"c","a","l","c">>, "CALCULATOR", <<>>, <<"2","5"," ","*"," ","4">>),
       PlanStep(2, <<"s","e","a","r","c","h">>, "SEARCH", <<>>, <<"P","y","t","h","o","n">>),
       PlanStep(3, <<"a","n","a","l","y","z","e">>, "TEXT_ANALYZER", <<1>>, ResultFromStep1) >>

\* nothing has been planned, prepared, validated or synthesized yet
NotYet == [kind |-> "not yet"]
\* no tool is called from outside the Executor and run is not called
\* concurrently
ToolsIdle ==
    /\ tool_arg = NotYet
    /\ world = NotYet
    /\ tool_output = NotYet
    /\ runs = NotYet
    /\ web = NotYet
    /\ game = NotYet
StagesIdle ==
    /\ prepared = NotYet
    /\ query = <<>>
    /\ llm = NotYet
    /\ report = NotYet
    /\ final_response = NotYet
    /\ run_result = NotYet
    /\ exception = NotYet
    /\ ToolsIdle

InitExec ==
    /\ entry = "execute_plan"
    /\ pc = "exec_call"
    /\ \/ /\ available_tools = StubRegistry
          /\ plan \in SeqsUpTo(ExecSteps, MaxPlanLen)
       \/ /\ available_tools = RealRegistry
          /\ plan \in {DemoManualPlan, DemoComplexPlan}
    /\ results = EmptyLedger
    /\ idx = 0
    /\ calls = <<>>
    /\ deterministic \in BOOLEAN
    /\ toolMemo = <<>>
    /\ callNo = 0
    /\ firstLedger = EmptyLedger
    /\ StagesIdle

NextExec == ExecBegin \/ ExecDepFail \/ ExecNoTool \/ ExecTool \/ ExecReturn \/ ExecAgain

SpecExec == InitExec /\ [][NextExec]_vars

(***************************************************************************)
(* Properties of Executor.execute_plan.                                    *)
(***************************************************************************)
StepNumbers(p) == {p[i].step_number : i \in 1..Len(p)}

\* step_numbers pairwise distinct, every dependency an earlier step's number
ValidPlan(p) ==
    /\ \A i \in 1..Len(p) : p[i].step_number_is_int
    /\ \A i, j \in 1..Len(p) : i # j => p[i].step_number # p[j].step_number
    /\ \A i \in 1..Len(p) : \A k \in 1..Len(p[i].dependencies) :
          \E j \in 1..(i - 1) : p[j].step_number = p[i].dependencies[k]

\* C1: for a plan with pairwise distinct step_numbers whose dependencies name
\* earlier steps, whatever the tools do (return or raise), no exception leaves
\* execute_plan, its loop stays within the plan, and the ledger it returns
\* has exactly the plan's step_numbers as keys, one ExecutionResult per
\* PlanStep.
C1_LedgerCoversPlan ==
    (entry = "execute_plan" /\ ValidPlan(plan)) =>
       /\ pc # "exec_raised"
       /\ pc = "exec_loop" => idx \in 1..(Len(plan) + 1)
       /\ pc = "exec_returned" =>
             /\ DOMAIN results = StepNumbers(plan)
             /\ Cardinality(DOMAIN results) = Len(plan)
             /\ \A n \in DOMAIN results : results[n].step_number = n

C1_Witness ==
    /\ entry = "execute_plan" /\ pc = "exec_returned"
    /\ ValidPlan(plan) /\ Len(plan) = MaxPlanLen
    /\ \E n \in DOMAIN results : ~results[n].success /\ results[n].error = StubBoom
    /\ \E n \in DOMAIN results : ~results[n].success /\ results[n].error # StubBoom
    /\ \E n \in DOMAIN results : results[n].success

\* C2: when the loop reaches a step one of whose declared dependencies has no
\* ledger entry or a failed one, the entry stored for that step has
\* success = false, no output, and an error text holding the step number of
\* such a dependency; so failure cascades along a chain of dependencies.
C2_BadDependencyFails ==
    [][ (pc = "exec_loop" /\ idx <= Len(plan)) =>
          LET step == plan[idx]
              bad == {step.dependencies[k] : k \in 1..Len(step.dependencies)}
                     \ {d \in DOMAIN results : results[d].success}
          IN  bad # {} =>
                 /\ step.step_number \in DOMAIN results'
                 /\ ~results'[step.step_number].success
                 /\ results'[step.step_number].output = NoneOutput
                 /\ \E d \in bad :
                       Contains(Placeholder(d), Lower(results'[step.step_number].error))
      ]_vars

\* step 1's tool raised, step 2 depends on 1, step 3 depends on 2: all failed
C2_Witness ==
    /\ pc = "exec_returned" /\ Len(plan) = 3
    /\ \A i \in 1..3 : plan[i].step_number = i
    /\ plan[1].dependencies = <<>> /\ plan[2].dependencies = <<1>> /\ plan[3].dependencies = <<2>>
    /\ results[1].error = StubBoom
    /\ results[2].error = DependencyError(1)
    /\ results[3].error = DependencyError(2)
    /\ \A n \in 1..3 : ~results[n].success /\ results[n].output = NoneOutput

\* C8: with tools that are functions of their input, a second call of
\* execute_plan on the same Executor with the same plan returns a ledger equal
\* to the first call's.
C8_SecondCallSameLedger ==
    (entry = "execute_plan" /\ pc = "exec_returned" /\ callNo = 2) => results = firstLedger

\* a second call has returned for a plan in which a step depends on a later
\* step, some tool was called and some step failed
C8_Witness ==
    /\ entry = "execute_plan" /\ pc = "exec_returned" /\ callNo = 2
    /\ ~ValidPlan(plan)
    /\ calls # <<>>
    /\ \E n \in DOMAIN results : ~results[n].success
    /\ \E n \in DOMAIN results : results[n].success

\* C9: executing the demonstration plan (step 1 CALCULATOR "100 + 50"; step 2
\* TEXT_ANALYZER depending on step 1 with tool_input "result from step 1")
\* with the real calculator and text analyzer, both steps succeed, step 1's
\* result is 150, the text analyzer is called with "150" and reports
\* word_count 1.
C9_DemoAnalysesTheResult ==
    (entry = "execute_plan" /\ available_tools = RealRegistry
        /\ plan = DemoManualPlan /\ pc = "exec_returned") =>
       /\ results[1].success /\ results[1].output.result = 150
       /\ results[2].success
       /\ calls[2].tool = "TEXT_ANALYZER"
       /\ calls[2].input = <<"1","5","0">>
       /\ results[2].output.word_count = 1

(***************************************************************************)
(* ToolSelector.validate_tool_input on its own: one step, any ledger.      *)
(***************************************************************************)
PrepStepNos == {1, 2, 10}

PrepInputs ==
    { ResultFromStep1,
      <<"a","d","d"," ","s","t","e","p"," ","1"," ","t","o"," ","s","t","e","p"," ","2">>,
      <<"u","s","e"," ","s","t","e","p"," ","1","0">>,
      <<"u","s","e"," ","S","t","e","p"," ","2">>,
      <<"p","l","a","i","n"," ","t","e","x","t">>,
      <<"s","t","e","p"," ","2"," ","t","h","e","n"," ","s","t","e","p"," ","1">> }

PrepDepLists == {<<>>, <<1>>, <<2>>, <<10>>, <<1, 2>>, <<2, 1>>, <<1, 10>>}

SeeStep2 == <<"s","e","e"," ","s","t","e","p"," ","2">>

\* the entries a ledger may hold for step n: failed, successful with an
\* output whose str() is "out<n>", or (step 1) a pass-through output whose
\* str() itself mentions step 2
PrepResults ==
    {ExecutionResult(n, FALSE, NoneOutput, StubBoom) : n \in PrepStepNos}
    \cup {ExecutionResult(n, TRUE, StubOutput(<<"o","u","t">> \o IntStr(n), TRUE, TRUE), None) : n \in PrepStepNos}
    \cup {ExecutionResult(1, TRUE, PassThroughOutput(SeeStep2), None)}

PrepLedgers ==
    UNION { {l \in [D -> PrepResults] : \A n \in D : l[n].step_number = n} :
            D \in SUBSET PrepStepNos }

InitPrep ==
    /\ entry = "validate_tool_input"
    /\ pc = "prep_call"
    /\ available_tools = StubRegistry
    /\ \E deps \in PrepDepLists, inp \in PrepInputs :
          plan = <<PlanStep(MaxStepNo, Desc, "SEARCH", deps, inp)>>
    /\ results \in PrepLedgers
    /\ idx = 0
    /\ calls = <<>>
    /\ deterministic = FALSE
    /\ toolMemo = <<>>
    /\ callNo = 0
    /\ firstLedger = EmptyLedger
    /\ StagesIdle

\* tool_selector.validate_tool_input(step, results) is called and returns
PrepCall ==
    /\ pc = "prep_call"
    /\ pc' = "prep_returned"
    /\ prepared' = [kind |-> "str", text |-> validate_tool_input(plan[1], results)]
    /\ UNCHANGED <<entry, available_tools, plan, results, idx, calls, deterministic,
                   toolMemo, callNo, firstLedger>>
    /\ UNCHANGED <<query, llm, report, final_response, run_result, exception>>
    /\ UNCHANGED toolVars
    /\ UNCHANGED concVars
    /\ UNCHANGED serviceVars

NextPrep == PrepCall

SpecPrep == InitPrep /\ [][NextPrep]_vars

\* s with every occurrence of old (matched on the lower-cased text, left to
\* right) replaced by new, the text around the occurrences kept
RECURSIVE ReplaceFrom(_, _, _, _)
ReplaceFrom(s, i, old, new) ==
    IF i > Len(s) THEN <<>>
    ELSE IF i + Len(old) - 1 <= Len(s) /\ Lower(SubSeq(s, i, i + Len(old) - 1)) = old
         THEN new \o ReplaceFrom(s, i + Len(old), old, new)
         ELSE <<s[i]>> \o ReplaceFrom(s, i + 1, old, new)

\* the substitution of each successful dependency's placeholder, in the
\* declared order of the dependencies
RECURSIVE Substituted(_, _, _, _)
Substituted(input_str, dependencies, i, ledger) ==
    IF i > Len(dependencies) THEN input_str
    ELSE LET dep_step == dependencies[i]
         IN  IF dep_step \in DOMAIN ledger /\ ledger[dep_step].success
             THEN Substituted(ReplaceFrom(input_str, 1, Placeholder(dep_step),
                                          PyStr(ledger[dep_step].output)),
                              dependencies, i + 1, ledger)
             ELSE Substituted(input_str, dependencies, i + 1, ledger)

\* C10: the prepared input is the step's tool_input with the placeholder
\* "step N" of every successful dependency N replaced, as a substring, by the
\* string form of that dependency's output; the text around the placeholder
\* is kept, and the placeholders of two dependencies are both substituted.
C10_PlaceholderSubstituted ==
    (entry = "validate_tool_input" /\ pc = "prep_returned") =>
       prepared.text = Substituted(plan[1].tool_input, plan[1].dependencies, 1, results)

(***************************************************************************)
(* The completion capability's answers.  A JSON text is the value it       *)
(* denotes; a content is a sequence of tokens: white space, the two code   *)
(* fences, prose that is not JSON, and JSON texts.                         *)
(***************************************************************************)
JNull == [t |-> "null"]
JNum(n) == [t |-> "num", v |-> n]
JStr(s) == [t |-> "str", v |-> s]
JBool(b) == [t |-> "bool", v |-> b]
JArr(items) == [t |-> "arr", v |-> items]
JObj(fields) == [t |-> "obj", v |-> fields]

Ws == [k |-> "ws"]
\* the opening fence with the json tag, and the bare fence
FenceJson == [k |-> "fence_json"]
Fence == [k |-> "fence"]
Prose == [k |-> "prose"]
Json(value) == [k |-> "json", v |-> value]

\* content.strip()
RECURSIVE StripTokens(_)
StripTokens(c) ==
    IF c # <<>> /\ Head(c) = Ws THEN StripTokens(Tail(c))
    ELSE IF c # <<>> /\ c[Len(c)] = Ws THEN StripTokens(SubSeq(c, 1, Len(c) - 1))
    ELSE c

\* the first position from `from` on that holds one of the separators, or
\* Len(c) + 1
RECURSIVE NextSep(_, _, _)
NextSep(c, seps, from) ==
    IF from > Len(c) THEN Len(c) + 1
    ELSE IF c[from] \in seps THEN from
    ELSE NextSep(c, seps, from + 1)

\* content.split(sep)[0] and content.split(sep)[1], sep occurring in content
\* for the latter
Piece0(c, seps) == SubSeq(c, 1, NextSep(c, seps, 1) - 1)
Piece1(c, seps) ==
    LET first == NextSep(c, seps, 1)
    IN  SubSeq(c, first + 1, NextSep(c, seps, first + 1) - 1)

\* the opening fence with the json tag is looked for first; it contains the
\* bare fence as a substring
ExtractJson(c) ==
    IF \E i \in 1..Len(c) : c[i] = FenceJson
    THEN StripTokens(Piece0(Piece1(c, {FenceJson}), {Fence, FenceJson}))
    ELSE IF \E i \in 1..Len(c) : c[i] = Fence
    THEN StripTokens(Piece0(Piece1(c, {Fence}), {Fence}))
    ELSE c

\* json.loads: one JSON text, white space around it allowed; anything else
\* raises JSONDecodeError
json_loads(c) ==
    LET text == StripTokens(c)
    IN  IF Len(text) = 1 /\ text[1].k = "json"
        THEN [raises |-> FALSE, value |-> text[1].v]
        ELSE [raises |-> TRUE]

\* dict.get(key, default)
Get(obj, key, default) == IF key \in DOMAIN obj.v THEN obj.v[key] ELSE default

\* str.upper()
UpperOf == [c \in {LowerAlphabet[i] : i \in 1..Len(LowerAlphabet)} |->
               UpperAlphabet[IndexIn(c, LowerAlphabet)]]
UpperChar(c) == IF c \in DOMAIN UpperOf THEN UpperOf[c] ELSE c
Upper(s) == [i \in 1..Len(s) |-> UpperChar(s[i])]

\* the names of the members of ToolType, as text
ToolTypeName ==
    [ SEARCH |-> <<"S","E","A","R","C","H">>,
      CALCULATOR |-> <<"C","A","L","C","U","L","A","T","O","R">>,
      TEXT_ANALYZER |-> <<"T","E","X","T","_","A","N","A","L","Y","Z","E","R">>,
      FINANCIAL_DATA |-> <<"F","I","N","A","N","C","I","A","L","_","D","A","T","A">>,
      COMMODITY_PRICE |-> <<"C","O","M","M","O","D","I","T","Y","_","P","R","I","C","E">>,
      NONE |-> <<"N","O","N","E">> ]

\* mutant: a name that is no member gives the first member
ToolTypeOf_FirstMember(tool_name) ==
    IF \E t \in ToolType : ToolTypeName[t] = tool_name
    THEN CHOOSE t \in ToolType : ToolTypeName[t] = tool_name
    ELSE "SEARCH"

\* ToolType[tool_name], KeyError giving ToolType.NONE
ToolTypeOf(tool_name) ==
    IF \E t \in ToolType : ToolTypeName[t] = tool_name
    THEN CHOOSE t \in ToolType : ToolTypeName[t] = tool_name
    ELSE "NONE"

(***************************************************************************)
(* Planner.create_plan.                                                    *)
(***************************************************************************)
\* a JSON string as a Python str, a JSON array of numbers as a list of int
PyText(j) == CASE j.t = "str" -> j.v
PyIntList(j) == CASE j.t = "arr" -> [i \in 1..Len(j.v) |-> j.v[i].v]

\* PlanStep(step_number=step_data.get("step", len(steps) + 1), ...)
PlanStepFrom(step_data, tool_type, default_number) ==
    LET number == Get(step_data, "step", JNum(default_number))
    IN  [ step_number |-> IF number.t = "num" THEN number.v ELSE 0,
          step_number_is_int |-> number.t = "num",
          description |-> PyText(Get(step_data, "description", JStr(<<>>))),
          required_tool |-> tool_type,
          dependencies |-> PyIntList(Get(step_data, "dependencies", JArr(<<>>))),
          tool_input |-> PyText(Get(step_data, "input", JStr(<<>>))) ]

\* for step_data in plan_data: a list yields its elements, a dict its keys and
\* a str its characters (all of them str); any other value is not iterable
Iterate(plan_data) ==
    CASE plan_data.t = "arr" -> [raises |-> FALSE, items |-> plan_data.v]
      [] plan_data.t = "obj" ->
            [raises |-> FALSE,
             items |-> [i \in 1..Cardinality(DOMAIN plan_data.v) |-> JStr(<<"k">>)]]
      [] plan_data.t = "str" ->
            [raises |-> FALSE, items |-> [i \in 1..Len(plan_data.v) |-> JStr(<<plan_data.v[i]>>)]]
      [] OTHER -> [raises |-> TRUE]

\* the loop that converts the elements to PlanStep objects, from the i-th on;
\* .get of a value that is not a dict and .upper() of one that is not a str
\* raise AttributeError
RECURSIVE BuildSteps(_, _, _)
BuildSteps(items, i, steps) ==
    IF i > Len(items) THEN [raises |-> FALSE, steps |-> steps]
    ELSE LET step_data == items[i]
         IN  IF step_data.t # "obj" THEN [raises |-> TRUE]
             ELSE LET tool == Get(step_data, "tool", JStr(<<"N","O","N","E">>))
                  IN  IF tool.t # "str" THEN [raises |-> TRUE]
                      ELSE BuildSteps(items, i + 1,
                              Append(steps, PlanStepFrom(step_data, ToolTypeOf(Upper(tool.v)),
                                                         Len(steps) + 1)))

\* the body of the try block, for what chain.invoke did
TryCreatePlan(behaviour) ==
    IF behaviour.raises \/ ~behaviour.content_is_str THEN [raises |-> TRUE]
    ELSE LET plan_data == json_loads(ExtractJson(StripTokens(behaviour.content)))
         IN  IF plan_data.raises THEN [raises |-> TRUE]
             ELSE LET iter == Iterate(plan_data.value)
                  IN  IF iter.raises THEN [raises |-> TRUE]
                      ELSE BuildSteps(iter.items, 1, <<>>)

ProcessQueryDirectly ==
    <<"P","r","o","c","e","s","s"," ","q","u","e","r","y"," ","d","i","r","e","c","t","l","y">>

\* mutant: the fallback step carries no input
FallbackPlan_EmptyInput(q) == <<PlanStep(1, ProcessQueryDirectly, "NONE", <<>>, <<>>)>>

\* the except branch
FallbackPlan(q) == <<PlanStep(1, ProcessQueryDirectly, "NONE", <<>>, q)>>

create_plan(q, behaviour) ==
    LET tried == TryCreatePlan(behaviour)
    IN  IF tried.raises THEN FallbackPlan(q) ELSE tried.steps

(***************************************************************************)
(* What the completion capability may answer to the planning prompt.       *)
(***************************************************************************)
MaxPlanSteps == 2

Raises == [raises |-> TRUE]
Answers(content) == [raises |-> FALSE, content_is_str |-> TRUE, content |-> content]
\* response.content is a list of parts, not a str
AnswersParts == [raises |-> FALSE, content_is_str |-> FALSE, content |-> <<>>]

StepKeys == {"step", "tool", "dependencies"}
StepFieldChoices ==
    [ step |-> {JNum(1), JNum(2), JArr(<<JNum(1)>>)},
      tool |-> {JStr(<<"S","e","a","r","c","h">>), JStr(<<"b","o","g","u","s">>), JNull},
      dependencies |-> {JArr(<<JNum(1)>>), JArr(<<JNum(2)>>)} ]

\* the JSON objects with any of the keys, each with one of its values
StepObjects ==
    UNION { { JObj(f) : f \in {g \in [D -> UNION {StepFieldChoices[k] : k \in StepKeys}] :
                                  \A k \in D : g[k] \in StepFieldChoices[k]} } :
            D \in SUBSET StepKeys }

\* the arrays of at most n such objects
PlanArrays(n) == {JArr(items) : items \in SeqsUpTo(StepObjects, n)}

SamplePlan ==
    JArr(<< JObj([step |-> JNum(1), tool |-> JStr(<<"s","e","a","r","c","h">>),
                  input |-> JStr(<<"h","i">>)]),
            JObj([step |-> JNum(2), tool |-> JStr(<<"t","e","x","t","_","a","n","a","l","y","z","e","r">>),
                  dependencies |-> JArr(<<JNum(1)>>), input |-> JStr(ResultFromStep1),
                  description |-> JStr(Desc)]) >>)

\* a plan whose second step names a tool that does not exist
UnknownToolPlan ==
    JArr(<< JObj([step |-> JNum(1), tool |-> JStr(<<"C","a","l","c","u","l","a","t","o","r">>),
                  input |-> JStr(<<"1"," ","+"," ","1">>)]),
            JObj([step |-> JNum(2), tool |-> JStr(<<"w","e","b","_","b","r","o","w","s","e","r">>),
                  dependencies |-> JArr(<<JNum(1)>>), input |-> JStr(ResultFromStep1)]),
            JObj([step |-> JNum(3), tool |-> JStr(<<"t","e","x","t","_","a","n","a","l","y","z","e","r">>),
                  dependencies |-> JArr(<<JNum(1), JNum(2)>>),
                  input |-> JStr(<<"h","i">>)]) >>)

PlannerContents(n) ==
    {<<Json(a)>> : a \in PlanArrays(n)}
    \cup { <<Json(UnknownToolPlan)>>, <<FenceJson, Json(UnknownToolPlan), Fence>>,
           <<>>, <<Ws>>, <<Prose>>, <<Prose, Json(SamplePlan)>>, <<Json(SamplePlan), Prose>>,
           <<Ws, Json(SamplePlan), Ws>>,
           <<FenceJson, Ws, Json(SamplePlan), Ws, Fence>>,
           <<Prose, Ws, FenceJson, Json(SamplePlan), Fence, Ws, Prose>>,
           <<Fence, Ws, Json(SamplePlan), Ws, Fence>>,
           <<Prose, Fence, Json(JArr(<<>>)), Fence>>,
           <<Fence, Prose, Ws, Json(SamplePlan), Fence>>,
           <<FenceJson, Json(SamplePlan)>>,
           <<FenceJson, Prose, Fence>>,
           <<Json(JObj(<<>>))>>, <<Json(JStr(<<>>))>>,
           <<Json(JObj([steps |-> SamplePlan]))>>, <<Json(JStr(<<"o","k">>))>>,
           <<Json(JNum(7))>>, <<Json(JNull)>>,
           <<Json(JArr(<<SamplePlan.v[1], JNum(7)>>))>>,
           <<Json(JArr(<<SamplePlan.v[1], JStr(<<"o","k">>)>>))>>,
           <<Json(JArr(<<SamplePlan>>))>>,
           <<Json(JArr(<<SamplePlan.v[2], SamplePlan.v[1]>>))>>,
           <<Json(JArr(<<JObj([input |-> JStr(ResultFromStep1),
                               dependencies |-> JArr(<<JNum(2), JNum(1)>>)])>>))>> }

PlannerBehaviours(n) == {Raises, AnswersParts} \cup {Answers(c) : c \in PlannerContents(n)}

Queries == { <<"h","i">>, <<>> }

\* the stages that are not exercised never call the completion capability
LLM(planner, validator, synthesizer) ==
    [planner |-> planner, validator |-> validator, synthesizer |-> synthesizer]

InitPlanner ==
    /\ entry = "create_plan"
    /\ pc = "plan_call"
    /\ available_tools = RealRegistry
    /\ plan = <<>>
    /\ results = EmptyLedger
    /\ idx = 0
    /\ calls = <<>>
    /\ deterministic = FALSE
    /\ toolMemo = <<>>
    /\ callNo = 0
    /\ firstLedger = EmptyLedger
    /\ prepared = NotYet
    /\ query \in Queries
    /\ \E b \in PlannerBehaviours(MaxPlanSteps) : llm = LLM(b, Raises, Raises)
    /\ report = NotYet
    /\ final_response = NotYet
    /\ run_result = NotYet
    /\ exception = NotYet
    /\ ToolsIdle

\* planner.create_plan(query) is called and returns; in run, execute_plan is
\* called next
CreatePlan ==
    /\ pc = "plan_call"
    /\ plan' = create_plan(query, llm.planner)
    /\ pc' = IF entry = "run" THEN "exec_call" ELSE "plan_returned"
    /\ UNCHANGED <<entry, available_tools, results, idx, calls, deterministic,
                   toolMemo, callNo, firstLedger>>
    /\ UNCHANGED stageVars

NextPlanner == CreatePlan

SpecPlanner == InitPlanner /\ [][NextPlanner]_vars

(***************************************************************************)
(* The context both the Validator and the Synthesizer build before their   *)
(* try block: results.get(step.step_number) and, for a successful step,    *)
(* json.dumps(result.output).                                              *)
(***************************************************************************)
NotSerializable ==
    <<"O","b","j","e","c","t"," ","o","f"," ","t","y","p","e"," ","o","b","j","e","c","t"," ","i","s"," ","n","o","t"," ","J","S","O","N"," ","s","e","r","i","a","l","i","z","a","b","l","e">>

\* whether json.dumps(output) returns: it does not for a calculator result
\* that is Ellipsis or a complex number
JsonSerializable(output) ==
    CASE output.kind = "stub" -> output.json
      [] output.kind = "calculator" -> output.result_type \notin {"ellipsis", "complex"}
      [] OTHER -> TRUE

\* str(e) of the TypeError json.dumps raises for output
NotSerializableMessage(output) ==
    IF output.kind = "calculator"
    THEN <<"O","b","j","e","c","t"," ","o","f"," ","t","y","p","e"," ">>
         \o (IF output.result_type = "ellipsis" THEN <<"e","l","l","i","p","s","i","s">>
             ELSE <<"c","o","m","p","l","e","x">>)
         \o <<" ","i","s"," ","n","o","t"," ","J","S","O","N"," ","s","e","r","i","a","l","i","z","a","b","l","e">>
    ELSE NotSerializable

\* the message of the exception the i-th step of the plan raises while the
\* context is built, or None
StepContextError(step, ledger) ==
    IF ~step.step_number_is_int THEN UnhashableError
    ELSE IF /\ step.step_number \in DOMAIN ledger
            /\ ledger[step.step_number].success
            /\ ~JsonSerializable(ledger[step.step_number].output)
         THEN NotSerializableMessage(ledger[step.step_number].output)
         ELSE None

\* the first exception of the loop over the plan, or None
ContextError(steps, ledger) ==
    LET bad == {i \in 1..Len(steps) : StepContextError(steps[i], ledger) # None}
    IN  IF bad = {} THEN None
        ELSE StepContextError(steps[CHOOSE i \in bad : \A j \in bad : i <= j], ledger)

(***************************************************************************)
(* Validator.validate_results.                                             *)
(***************************************************************************)
SomeStepsFailed == <<"S","o","m","e"," ","s","t","e","p","s"," ","f","a","i","l","e","d">>
ACCEPT == <<"A","C","C","E","P","T">>
RETRY_WITH_CAUTION == <<"R","E","T","R","Y","_","W","I","T","H","_","C","A","U","T","I","O","N">>
REJECT == <<"R","E","J","E","C","T">>

\* The pairs s <= t <= 100 for which the float product (s / t) * 100 is
\* below the integer 100 * s / t: the quotient s / t is rounded down and the
\* product stays under the integer, so that int() gives one less.  For every
\* other pair with t <= 100 the float product has the integer part of
\* 100 * s / t.
FloatShortfall == { <<29, 50>>, <<29, 100>>, <<57, 100>>, <<58, 100>> }

\* int((successful_steps / total_steps) * 100), for total_steps <= 100
IntPercent(successful_steps, total_steps) ==
    IF <<successful_steps, total_steps>> \in FloatShortfall
    THEN (100 * successful_steps) \div total_steps - 1
    ELSE (100 * successful_steps) \div total_steps

\* the except branch: the heuristic report computed over results.values()
FallbackReport(ledger) ==
    LET successful_steps == Cardinality({n \in DOMAIN ledger : ledger[n].success})
        total_steps == Cardinality(DOMAIN ledger)
    IN  [ kind |-> "fallback",
          valid |-> successful_steps = total_steps,
          confidence_score |-> IF total_steps > 0
                               THEN IntPercent(successful_steps, total_steps) ELSE 0,
          warnings |-> IF successful_steps = total_steps THEN <<>> ELSE <<SomeStepsFailed>>,
          errors |-> <<>>,
          recommendation |-> IF successful_steps = total_steps THEN ACCEPT
                             ELSE RETRY_WITH_CAUTION,
          reasoning |-> <<"B","a","s","i","c"," ","v","a","l","i","d","a","t","i","o","n",":"," ">>
                        \o IntStr(successful_steps) \o <<"/">> \o IntStr(total_steps)
                        \o <<" ","s","t","e","p","s"," ","s","u","c","c","e","e","d","e","d">> ]

\* if validation_report.get(key): ', '.join(validation_report[key]) raises
\* TypeError for a true value or a non-zero number, and for a list with an
\* element that is not a str
JoinRaises(validation_report, key) ==
    IF key \notin DOMAIN validation_report.v THEN FALSE
    ELSE LET listed == validation_report.v[key]
         IN  CASE listed.t = "arr" -> \E i \in 1..Len(listed.v) : listed.v[i].t # "str"
               [] listed.t = "bool" -> listed.v
               [] listed.t = "num" -> listed.v # 0
               [] OTHER -> FALSE

\* the try block: the parsed JSON is returned as it is when it is a dict
\* (.get of anything else raises AttributeError)
TryValidate(behaviour) ==
    IF behaviour.raises \/ ~behaviour.content_is_str THEN [raises |-> TRUE]
    ELSE LET validation_report == json_loads(ExtractJson(StripTokens(behaviour.content)))
         IN  IF validation_report.raises THEN [raises |-> TRUE]
             ELSE IF validation_report.value.t # "obj" THEN [raises |-> TRUE]
             ELSE IF \/ JoinRaises(validation_report.value, "warnings")
                     \/ JoinRaises(validation_report.value, "errors")
                  THEN [raises |-> TRUE]
             ELSE [raises |-> FALSE,
                   report |-> [kind |-> "llm", value |-> validation_report.value]]

validate_results(original_query, steps, ledger, behaviour) ==
    IF ContextError(steps, ledger) # None
    THEN [raises |-> TRUE, message |-> ContextError(steps, ledger)]
    ELSE LET tried == TryValidate(behaviour)
         IN  IF tried.raises THEN [raises |-> FALSE, report |-> FallbackReport(ledger)]
             ELSE [raises |-> FALSE, report |-> tried.report]

(***************************************************************************)
(* Synthesizer.synthesize_response.                                        *)
(***************************************************************************)
BasedOnYourQuery == <<"B","a","s","e","d"," ","o","n"," ","y","o","u","r"," ","q","u","e","r","y",":"," ">>

\* "\n".join(parts)
RECURSIVE JoinLines(_)
JoinLines(parts) ==
    IF parts = <<>> THEN <<>>
    ELSE IF Len(parts) = 1 THEN parts[1]
    ELSE JoinLines(SubSeq(parts, 1, Len(parts) - 1)) \o <<"\n">> \o parts[Len(parts)]

\* mutant: a step is listed as soon as the ledger has an entry for it
FallbackListed_AnyEntry(step, ledger) == step.step_number \in DOMAIN ledger

\* result = results.get(step.step_number); if result and result.success
FallbackListed(step, ledger) ==
    step.step_number \in DOMAIN ledger /\ ledger[step.step_number].success

\* f"- {step.description}: {result.output}"
FallbackEntry(step, ledger) ==
    <<"-"," ">> \o step.description \o <<":"," ">> \o PyStr(ledger[step.step_number].output)

\* the parts appended by the loop over the plan from the i-th step on
RECURSIVE FallbackParts(_, _, _)
FallbackParts(steps, i, ledger) ==
    IF i > Len(steps) THEN <<>>
    ELSE IF FallbackListed(steps[i], ledger)
         THEN <<FallbackEntry(steps[i], ledger)>> \o FallbackParts(steps, i + 1, ledger)
         ELSE FallbackParts(steps, i + 1, ledger)

\* the except branch
FallbackResponse(original_query, steps, ledger) ==
    JoinLines(<<BasedOnYourQuery \o original_query \o <<"\n">>>> \o FallbackParts(steps, 1, ledger))

synthesize_response(original_query, steps, ledger, behaviour) ==
    IF ContextError(steps, ledger) # None
    THEN [raises |-> TRUE, message |-> ContextError(steps, ledger)]
    ELSE IF behaviour.raises \/ ~behaviour.content_is_str
         THEN [raises |-> FALSE, text |-> FallbackResponse(original_query, steps, ledger)]
         ELSE [raises |-> FALSE, text |-> Strip(behaviour.content)]

(***************************************************************************)
(* The stages as steps of the thread of control.                           *)
(***************************************************************************)
\* validator.validate_results(query, plan, results) is called by run after
\* execute_plan returned; it returns a report or an exception leaves it
Validate ==
    /\ \/ entry = "run" /\ pc = "exec_returned"
       \/ entry = "validate_results" /\ pc = "validate_call"
    /\ \E r \in {validate_results(query, plan, results, llm.validator)} :
          IF r.raises
          THEN /\ pc' = "validate_raised"
               /\ exception' = [message |-> r.message]
               /\ report' = report
          ELSE /\ pc' = IF entry = "run" THEN "synth_call" ELSE "validate_returned"
               /\ report' = r.report
               /\ exception' = exception
    /\ UNCHANGED <<entry, available_tools, plan, results, idx, calls, deterministic,
                   toolMemo, callNo, firstLedger>>
    /\ UNCHANGED <<prepared, query, llm, final_response, run_result>>
    /\ UNCHANGED toolVars
    /\ UNCHANGED concVars
    /\ UNCHANGED serviceVars

\* synthesizer.synthesize_response(query, plan, results) is called; it
\* returns a text or an exception leaves it
Synthesize ==
    /\ pc = "synth_call"
    /\ \E r \in {synthesize_response(query, plan, results, llm.synthesizer)} :
          IF r.raises
          THEN /\ pc' = "synth_raised"
               /\ exception' = [message |-> r.message]
               /\ final_response' = final_response
          ELSE /\ pc' = "synth_returned"
               /\ final_response' = [kind |-> "str", text |-> r.text]
               /\ exception' = exception
    /\ UNCHANGED <<entry, available_tools, plan, results, idx, calls, deterministic,
                   toolMemo, callNo, firstLedger>>
    /\ UNCHANGED <<prepared, query, llm, report, run_result>>
    /\ UNCHANGED toolVars
    /\ UNCHANGED concVars
    /\ UNCHANGED serviceVars

(***************************************************************************)
(* Synthesizer.synthesize_response on its own: any plan, any ledger.       *)
(***************************************************************************)
\* the i-th step of a plan is described as d<i>
SynthStep(i, n) == PlanStep(n, Desc \o IntStr(i), "SEARCH", <<>>, <<"h","i">>)

\* the plans of at most len steps numbered within 1..top, in any order and
\* with repetitions, and one plan whose step number is a list
SynthPlans(len, top) ==
    { [i \in 1..Len(numbers) |-> SynthStep(i, numbers[i])] :
        numbers \in SeqsUpTo(1..top, len) }
    \cup { <<[SynthStep(1, 1) EXCEPT !.step_number_is_int = FALSE]>> }

ItIs == <<"i","t","'","s">>

SynthResults(top) ==
    {ExecutionResult(n, FALSE, NoneOutput, StubBoom) : n \in 1..top}
    \cup {ExecutionResult(n, TRUE, StubOutput(<<"o","u","t">> \o IntStr(n), TRUE, TRUE), None) :
             n \in 1..top}
    \cup {ExecutionResult(n, TRUE, StubOutput(<<"o","b","j">>, TRUE, FALSE), None) :
             n \in 1..top}
    \cup {ExecutionResult(1, TRUE, PassThroughOutput(ItIs), None)}

SynthLedgers(top) ==
    UNION { {l \in [D -> SynthResults(top)] : \A n \in D : l[n].step_number = n} :
            D \in SUBSET (1..top) }

SynthBehaviours ==
    { Raises, AnswersParts,
      Answers(<<"a","n","s","w","e","r">>), Answers(<<" ","o","k","\n">>),
      Answers(<<>>), Answers(<<" "," ","\n">>) }

InitSynth ==
    /\ entry = "synthesize_response"
    /\ pc = "synth_call"
    /\ available_tools = RealRegistry
    /\ plan \in SynthPlans(MaxPlanLen, MaxStepNo)
    /\ results \in SynthLedgers(MaxStepNo)
    /\ idx = 0
    /\ calls = <<>>
    /\ deterministic = FALSE
    /\ toolMemo = <<>>
    /\ callNo = 0
    /\ firstLedger = EmptyLedger
    /\ prepared = NotYet
    /\ query \in Queries
    /\ \E b \in SynthBehaviours : llm = LLM(Raises, Raises, b)
    /\ report = NotYet
    /\ final_response = NotYet
    /\ run_result = NotYet
    /\ exception = NotYet
    /\ ToolsIdle

NextSynth == Synthesize

SpecSynth == InitSynth /\ [][NextSynth]_vars

(***************************************************************************)
(* MCPStyleAgent.run.                                                      *)
(***************************************************************************)
Apology ==
    <<"I"," ","a","p","o","l","o","g","i","z","e",","," ","b","u","t"," ","I"," ","e","n","c","o","u","n","t","e","r","e","d"," ","a","n"," ","e","r","r","o","r"," ","w","h","i","l","e"," ","p","r","o","c","e","s","s","i","n","g"," ","y","o","u","r"," ","r","e","q","u","e","s","t",":"," ">>

\* mutant: run has no except clause
RunExceptOutcome_Propagate(message) == [pc |-> "run_raised", result |-> NotYet]

\* except Exception as e: return f"I apologize, ...: {str(e)}"
RunExceptOutcome(message) ==
    [pc |-> "run_returned", result |-> [kind |-> "str", text |-> Apology \o message]]

\* return final_response
RunReturn ==
    /\ entry = "run"
    /\ pc = "synth_returned"
    /\ pc' = "run_returned"
    /\ run_result' = final_response
    /\ UNCHANGED <<entry, available_tools, plan, results, idx, calls, deterministic,
                   toolMemo, callNo, firstLedger>>
    /\ UNCHANGED <<prepared, query, llm, report, final_response, exception>>
    /\ UNCHANGED toolVars
    /\ UNCHANGED concVars
    /\ UNCHANGED serviceVars

\* an exception left execute_plan, validate_results or synthesize_response
\* and is caught by run
RunExcept ==
    /\ entry = "run"
    /\ pc \in {"exec_raised", "validate_raised", "synth_raised"}
    /\ \E e \in {IF pc = "exec_raised" THEN [message |-> UnhashableError] ELSE exception} :
       \E o \in {RunExceptOutcome(e.message)} :
          /\ pc' = o.pc
          /\ run_result' = o.result
          /\ exception' = e
    /\ UNCHANGED <<entry, available_tools, plan, results, idx, calls, deterministic,
                   toolMemo, callNo, firstLedger>>
    /\ UNCHANGED <<prepared, query, llm, report, final_response>>
    /\ UNCHANGED toolVars
    /\ UNCHANGED concVars
    /\ UNCHANGED serviceVars

RunPlans ==
    { JArr(<< JObj([step |-> JNum(1), tool |-> JStr(<<"s","e","a","r","c","h">>),
                    input |-> JStr(<<"h","i">>), description |-> JStr(Desc)]),
              JObj([step |-> JNum(2), tool |-> JStr(<<"c","o","m","m","o","d","i","t","y","_","p","r","i","c","e">>),
                    dependencies |-> JArr(<<JNum(1)>>), input |-> JStr(ResultFromStep1)]),
              JObj([step |-> JNum(3), tool |-> JStr(<<"n","o","n","e">>),
                    dependencies |-> JArr(<<JNum(2)>>), input |-> JStr(<<"h","i">>)]) >>),
      JArr(<< JObj([step |-> JNum(1), tool |-> JStr(<<"c","a","l","c","u","l","a","t","o","r">>),
                    input |-> JStr(<<"1","0","0"," ","+"," ","5","0">>)]),
              JObj([tool |-> JStr(<<"b","o","g","u","s">>),
                    dependencies |-> JArr(<<JNum(1)>>), input |-> JStr(ResultFromStep1)]) >>),
      JArr(<< JObj([step |-> JArr(<<JNum(1)>>), tool |-> JStr(<<"s","e","a","r","c","h">>),
                    input |-> JStr(<<"h","i">>)]) >>),
      JArr(<< JObj([step |-> JNum(1), tool |-> JStr(<<"c","a","l","c","u","l","a","t","o","r">>),
                    input |-> JStr(<<".",".",".">>)]) >>),
      JArr(<< JObj([step |-> JNum(1), tool |-> JStr(<<"c","a","l","c","u","l","a","t","o","r">>),
                    input |-> JStr(<<"1"," ","+"," ","1">>)]),
              JObj([step |-> JNum(1), tool |-> JStr(<<"n","o","n","e">>),
                    input |-> JStr(<<"h","i">>)]) >>),
      JArr(<<>>) }

RunPlannerBehaviours == {Raises} \cup {Answers(<<Json(a)>>) : a \in RunPlans}

RunValidatorBehaviours ==
    { Raises, Answers(<<Prose>>), Answers(<<Json(JArr(<<>>))>>),
      Answers(<<Json(JObj([valid |-> JBool(TRUE), confidence_score |-> JNum(90),
                           recommendation |-> JStr(ACCEPT)]))>>),
      Answers(<<FenceJson, Ws, Json(JObj([valid |-> JBool(FALSE), confidence_score |-> JNum(0),
                                          warnings |-> JArr(<<JStr(SomeStepsFailed)>>),
                                          recommendation |-> JStr(REJECT)])), Ws, Fence>>) }

InitRun ==
    /\ entry = "run"
    /\ pc = "plan_call"
    /\ available_tools = RealRegistry
    /\ plan = <<>>
    /\ results = EmptyLedger
    /\ idx = 0
    /\ calls = <<>>
    /\ deterministic = FALSE
    /\ toolMemo = <<>>
    /\ callNo = 0
    /\ firstLedger = EmptyLedger
    /\ prepared = NotYet
    /\ query \in Queries
    /\ \E p \in RunPlannerBehaviours, v \in RunValidatorBehaviours, b \in SynthBehaviours :
          llm = LLM(p, v, b)
    /\ report = NotYet
    /\ final_response = NotYet
    /\ run_result = NotYet
    /\ exception = NotYet
    /\ ToolsIdle

NextRun ==
    \/ CreatePlan
    \/ ExecBegin \/ ExecDepFail \/ ExecNoTool \/ ExecTool \/ ExecReturn
    \/ Validate
    \/ Synthesize
    \/ RunReturn
    \/ RunExcept

SpecRun == InitRun /\ [][NextRun]_vars

(***************************************************************************)
(* Properties of MCPStyleAgent.run, Planner.create_plan and                *)
(* Synthesizer.synthesize_response.                                        *)
(***************************************************************************)
\* C3: run never raises: whatever the completion capability and the tools
\* do, no exception leaves run and what run returns is a text; and when an
\* exception has left execute_plan, validate_results or synthesize_response,
\* the next thing run does is return the apology message followed by the
\* exception's message.
C3_RunNeverRaises ==
    /\ [](entry = "run" => /\ pc # "run_raised"
                           /\ pc = "run_returned" => run_result.kind = "str")
    /\ [][ (entry = "run" /\ pc \in {"exec_raised", "validate_raised", "synth_raised"}) =>
              /\ pc' = "run_returned"
              /\ run_result' =
                    [kind |-> "str",
                     text |-> Apology \o (IF pc = "exec_raised" THEN UnhashableError
                                          ELSE exception.message)]
         ]_vars

\* run returned the apology after json.dumps refused, in validate_results, the
\* output of a step that execute_plan had recorded as successful
C3_Witness ==
    /\ entry = "run" /\ pc = "run_returned"
    /\ Len(plan) = 3
    /\ \E n \in DOMAIN results : results[n].success /\ ~JsonSerializable(results[n].output)
    /\ report = NotYet /\ final_response = NotYet
    /\ run_result = [kind |-> "str", text |-> Apology \o NotSerializable]

\* C4: create_plan never returns an empty plan, whatever the completion
\* capability answers.
C4_PlanNeverEmpty ==
    (entry = "create_plan" /\ pc = "plan_returned") => Len(plan) >= 1

\* the completion call failed, or what it returned is not a str, is not one
\* JSON text once the fences are removed, is a JSON number or null, is a
\* non-empty JSON object or string, or is an array with an element that is no
\* object or whose "tool" is no string
C5_NotAPlan(behaviour) ==
    \/ behaviour.raises
    \/ ~behaviour.content_is_str
    \/ LET inner == StripTokens(ExtractJson(StripTokens(behaviour.content)))
       IN  IF Len(inner) # 1 \/ inner[1].k # "json" THEN TRUE
           ELSE LET value == inner[1].v
                IN  CASE value.t \in {"num", "null", "bool"} -> TRUE
                      [] value.t = "obj" -> DOMAIN value.v # {}
                      [] value.t = "str" -> value.v # <<>>
                      [] value.t = "arr" ->
                            \E i \in 1..Len(value.v) :
                               IF value.v[i].t # "obj" THEN TRUE
                               ELSE /\ "tool" \in DOMAIN value.v[i].v
                                    /\ value.v[i].v["tool"].t # "str"

C6_ResponseNeverEmpty ==
    (entry = "synthesize_response" /\ pc = "synth_returned") => final_response.text # <<>>

\* the first position at which sub occurs in s (0-based)
FirstPos(sub, s) ==
    CHOOSE i \in 0..(Len(s) - Len(sub)) :
       /\ SubSeq(s, i + 1, i + Len(sub)) = sub
       /\ \A h \in 0..(i - 1) : SubSeq(s, h + 1, h + Len(sub)) # sub

RECURSIVE SumLen(_, _)
SumLen(texts, i) == IF i > Len(texts) THEN 0 ELSE Len(texts[i]) + SumLen(texts, i + 1)

\* C7: when the completion call of synthesize_response fails, the text
\* returned is the line "Based on your query: <query>" followed by one line
\* "- <description>: <str(output)>" for every step of the plan whose ledger
\* entry has success = true, in plan order, and by nothing else: no line for a
\* step that failed or that has no ledger entry.
C7_FallbackListsSuccessfulSteps ==
    (entry = "synthesize_response" /\ pc = "synth_returned" /\ llm.synthesizer.raises) =>
       LET text == final_response.text
           Listed(i) == /\ plan[i].step_number \in DOMAIN results
                        /\ results[plan[i].step_number].success
           Mark(i) == <<"\n", "-", " ">> \o plan[i].description \o <<":">>
           Line(i) == Mark(i) \o <<" ">> \o PyStr(results[plan[i].step_number].output)
           head == BasedOnYourQuery \o query \o <<"\n">>
       IN  /\ SubSeq(text, 1, Len(head)) = head
           /\ \A i \in 1..Len(plan) : Listed(i) => Contains(Line(i), text)
           /\ \A i \in 1..Len(plan) : ~Listed(i) => ~Contains(Mark(i), text)
           /\ \A i, j \in 1..Len(plan) :
                 (i < j /\ Listed(i) /\ Listed(j)) => FirstPos(Mark(i), text) < FirstPos(Mark(j), text)
           /\ Len(text) = Len(head)
                 + SumLen([i \in 1..Len(plan) |-> IF Listed(i) THEN Line(i) ELSE <<>>], 1)

\* a plan of three steps whose numbers are not in increasing order, two of
\* them successful and one failed
C7_Witness ==
    /\ entry = "synthesize_response" /\ pc = "synth_returned" /\ llm.synthesizer.raises
    /\ Len(plan) = 3
    /\ plan[1].step_number > plan[2].step_number
    /\ \E i \in 1..3 : /\ plan[i].step_number \in DOMAIN results
                       /\ ~results[plan[i].step_number].success
    /\ \E i, j \in 1..3 : /\ i < j
                          /\ plan[i].step_number \in DOMAIN results
                          /\ plan[j].step_number \in DOMAIN results
                          /\ results[plan[i].step_number].success
                          /\ results[plan[j].step_number].success

(***************************************************************************)
(* The tools of AgentTools that ask the network: search,                   *)
(* get_financial_data and commodity_price.  What the network does is the   *)
(* argument net: the request raises, or it answers.  A result is a record  *)
(* whose fields are the keys of the dict the tool returns, and kind.       *)
(***************************************************************************)
Min(a, b) == IF a < b THEN a ELSE b

NoTitle == <<"N","o"," ","t","i","t","l","e">>
NoDescription == <<"N","o"," ","d","e","s","c","r","i","p","t","i","o","n">>
SearchFailed(status_code) ==
    <<"S","e","a","r","c","h"," ","f","a","i","l","e","d"," ","w","i","t","h"," ","s","t","a","t","u","s"," ","c","o","d","e",":"," ">> \o IntStr(status_code)

\* one div.result of the page: the text of its a.result__a and of its
\* a.result__snippet, None where the page has no such tag
SearchHit(result) ==
    [title |-> IF result.title_tag = None THEN NoTitle ELSE Strip(result.title_tag),
     snippet |-> IF result.snippet_tag = None THEN NoDescription
                 ELSE Strip(result.snippet_tag)]

search(q, net) ==
    CASE net.kind = "raises" ->
            [kind |-> "search", query |-> q, results |-> <<>>, total_results |-> 0,
             error |-> net.message]
      [] net.kind = "response" /\ net.status_code # 200 ->
            [kind |-> "search", query |-> q, results |-> <<>>, total_results |-> 0,
             error |-> SearchFailed(net.status_code)]
      [] net.kind = "response" /\ net.status_code = 200 ->
            LET search_results == SubSeq(net.divs, 1, Min(5, Len(net.divs)))
                found == [i \in 1..Len(search_results) |-> SearchHit(search_results[i])]
            IN  [kind |-> "search", query |-> q, results |-> found,
                 total_results |-> Len(found)]

\* info.get(key, default)
InfoGet(info, key, default) == IF key \in DOMAIN info THEN info[key] ELSE default

\* the values ticker.info holds: None, a number or a string
PyNone == [t |-> "none"]
InfoText(text) == [t |-> "str", v |-> text]

\* the truth value of a value of ticker.info: None, 0 and the empty string
\* are false
Truthy(v) ==
    CASE v.t = "none" -> FALSE
      [] IsNum(v) -> ~IsZero(v)
      [] v.t = "str" -> v.v # <<>>

\* a or b or c
Or3(a, b, c) == IF Truthy(a) THEN a ELSE IF Truthy(b) THEN b ELSE c

CouldNotFetch(symbol) == <<"C","o","u","l","d"," ","n","o","t"," ","f","e","t","c","h"," ","p","r","i","c","e"," ","f","o","r"," ">> \o symbol
USD == <<"U","S","D">>
Unknown == <<"u","n","k","n","o","w","n">>

\* round(x, 2) of a float the model knows: a value that is a whole number of
\* hundredths is its own rounding
Round2(x) ==
    CASE x.t = "int" -> x
      [] x.t = "float" /\ x.known /\ (100 * x.num) % x.den = 0 -> x

Pad2(n) == IF n < 10 THEN <<"0">> \o NatStr(n) ELSE NatStr(n)

\* datetime.now().strftime('%Y-%m-%d %H:%M:%S'), for a year of four digits
Timestamp(now) ==
    NatStr(now.year) \o <<"-">> \o Pad2(now.month) \o <<"-">> \o Pad2(now.day) \o <<" ">>
    \o Pad2(now.hour) \o <<":">> \o Pad2(now.minute) \o <<":">> \o Pad2(now.second)

get_financial_data(symbol, net) ==
    IF net.kind = "raises"
    THEN [kind |-> "financial_data", symbol |-> symbol, error |-> net.message,
          success |-> FALSE]
    ELSE LET info == net.info
             current_price == Or3(InfoGet(info, "currentPrice", PyNone),
                                  InfoGet(info, "regularMarketPrice", PyNone),
                                  InfoGet(info, "previousClose", PyNone))
             name == Or3(InfoGet(info, "longName", PyNone),
                         InfoGet(info, "shortName", PyNone), InfoText(symbol))
             previous_close == InfoGet(info, "previousClose", current_price)
             change_pct ==
                 IF Truthy(previous_close)
                 THEN PyBinOp("*", PyBinOp("/", PyBinOp("-", current_price, previous_close),
                                           previous_close),
                              PyInt(100))
                 ELSE PyInt(0)
         IN  IF ~Truthy(current_price)
             THEN [kind |-> "financial_data", symbol |-> symbol,
                   error |-> CouldNotFetch(symbol), success |-> FALSE]
             ELSE IF change_pct.t = "exc"
             THEN [kind |-> "financial_data", symbol |-> symbol,
                   error |-> ExcMessage(change_pct.class), success |-> FALSE]
             ELSE [kind |-> "financial_data", symbol |-> symbol, name |-> name,
                   current_price |-> current_price,
                   currency |-> InfoGet(info, "currency", InfoText(USD)),
                   change_percent |-> Round2(change_pct),
                   market_state |-> InfoGet(info, "marketState", InfoText(Unknown)),
                   timestamp |-> Timestamp(net.now), success |-> TRUE]

commodity_symbols ==
    <<<<<<"s","i","l","v","e","r">>, <<"S","I","=","F">>>>,
      <<<<"g","o","l","d">>, <<"G","C","=","F">>>>,
      <<<<"o","i","l">>, <<"C","L","=","F">>>>,
      <<<<"c","r","u","d","e"," ","o","i","l">>, <<"C","L","=","F">>>>,
      <<<<"c","o","p","p","e","r">>, <<"H","G","=","F">>>>,
      <<<<"p","l","a","t","i","n","u","m">>, <<"P","L","=","F">>>>,
      <<<<"p","a","l","l","a","d","i","u","m">>, <<"P","A","=","F">>>>,
      <<<<"n","a","t","u","r","a","l"," ","g","a","s">>, <<"N","G","=","F">>>>,
      <<<<"w","h","e","a","t">>, <<"Z","W","=","F">>>>,
      <<<<"c","o","r","n">>, <<"Z","C","=","F">>>>,
      <<<<"s","o","y","b","e","a","n","s">>, <<"Z","S","=","F">>>>>>

\* commodity_symbols.get(name): None when name is no key
SymbolOf(name) ==
    IF \E i \in 1..Len(commodity_symbols) : commodity_symbols[i][1] = name
    THEN commodity_symbols[CHOOSE i \in 1..Len(commodity_symbols) :
                               commodity_symbols[i][1] = name][2]
    ELSE None

\* ', '.join(commodity_symbols.keys())
RECURSIVE JoinKeys(_)
JoinKeys(n) ==
    IF n = 1 THEN commodity_symbols[1][1]
    ELSE JoinKeys(n - 1) \o <<",", " ">> \o commodity_symbols[n][1]

UnknownCommodity ==
    <<"U","n","k","n","o","w","n"," ","c","o","m","m","o","d","i","t","y","."," ","A","v","a","i","l","a","b","l","e",":"," ">> \o JoinKeys(Len(commodity_symbols))

commodity_price(commodity, net) ==
    LET commodity_lower == Strip(Lower(commodity))
        symbol == SymbolOf(commodity_lower)
    IN  IF symbol = None
        THEN [kind |-> "financial_data", commodity |-> commodity,
              error |-> UnknownCommodity, success |-> FALSE]
        ELSE LET result == get_financial_data(symbol, net)
             IN  IF result.success
                 THEN [k \in DOMAIN result \cup {"commodity"} |->
                          IF k = "commodity" THEN commodity ELSE result[k]]
                 ELSE result

\* the keys of the dict a tool returned
DictKeys(output) ==
    CASE output.kind = "calculator" ->
            IF output.success THEN {"expression", "result", "success"}
            ELSE {"expression", "result", "success", "error"}
      [] output.kind = "text_analyzer" ->
            {"text_length", "text_length_no_spaces", "word_count", "unique_words",
             "sentence_count", "avg_word_length", "avg_sentence_length",
             "longest_word", "longest_word_length", "readability"}
      [] output.kind \in {"search", "financial_data"} -> DOMAIN output \ {"kind"}

(***************************************************************************)
(* The tools called directly, one call per behaviour: entry names the      *)
(* tool, tool_arg is the string it is given and world what the network     *)
(* does.                                                                   *)
(***************************************************************************)
MaxExprLen == 3
MaxTextLen == 4

CalcAlphabet == {"0", "1", "2", "+", "-", "*", "/", "(", ")", ".", " ", "a", "\t"}
CalcExpressions(n) ==
    SeqsUpTo(CalcAlphabet, n)
    \cup { <<"D","R","O","P"," ","T","A","B","L","E">>, <<"2"," ","+"," ","a","b","c">>, <<".",".",".">>, <<"1","0","0"," ","+"," ","5","0">>, <<"2","5"," ","*"," ","4"," ","+"," ","1","0">>, <<"2","*","*","3">>, <<"7","/","/","2">>, <<"(","1","+","2",")","*","3">> }

TextAlphabet == {"a", "b", "B", " ", "\n", "."}
HelloWorld == <<"H","e","l","l","o"," ","W","o","r","l","d">>
Texts(n) == SeqsUpTo(TextAlphabet, n) \cup { HelloWorld, <<"a","a"," ","b","b"," ","A","A">>, <<"I","s"," ","i","t","?"," ","Y","e","s","."," ">> }

TimedOut == <<"t","i","m","e","d"," ","o","u","t">>
Div(title_tag, snippet_tag) == [title_tag |-> title_tag, snippet_tag |-> snippet_tag]
SearchWorlds ==
    { [kind |-> "raises", message |-> TimedOut],
      [kind |-> "response", status_code |-> 503, divs |-> <<>>],
      [kind |-> "response", status_code |-> 200, divs |-> <<>>],
      [kind |-> "response", status_code |-> 200,
       divs |-> <<Div(<<" ","T"," ">>, <<"s">>), Div(None, None)>>],
      [kind |-> "response", status_code |-> 200,
       divs |-> [i \in 1..6 |-> Div(NatStr(i), None)]] }

Clocks ==
    { [year |-> 2024, month |-> 1, day |-> 2, hour |-> 3, minute |-> 4, second |-> 5],
      [year |-> 2025, month |-> 12, day |-> 31, hour |-> 23, minute |-> 59, second |-> 59] }
Infos ==
    { [currentPrice |-> PyInt(30), previousClose |-> PyInt(20),
       longName |-> InfoText(<<"A","p","p","l","e">>), currency |-> InfoText(<<"E","U","R">>),
       marketState |-> InfoText(<<"O","P","E","N">>)],
      [regularMarketPrice |-> PyInt(20), shortName |-> InfoText(<<"A","p","p","l","e">>)],
      [previousClose |-> PyInt(15)],
      [currentPrice |-> PyInt(15), previousClose |-> PyInt(0)],
      [currentPrice |-> PyNone, previousClose |-> PyInt(0)],
      [currentPrice |-> InfoText(<<"N","/","A">>)],
      [marketState |-> InfoText(<<"O","P","E","N">>)] }
FinancialWorlds ==
    { [kind |-> "raises", message |-> TimedOut] }
    \cup { [kind |-> "info", info |-> info, now |-> now] : info \in Infos, now \in Clocks }

Symbols == { <<"A","A","P","L">>, <<>> }
Commodities == { <<"g","o","l","d">>, <<" ","G","o","l","d"," ">>, <<"G","O","L","D">>, <<"c","r","u","d","e"," ","o","i","l">>, <<"u","n","o","b","t","a","i","n","i","u","m">>, <<>> }

ToolNames == {"search", "calculator", "text_analyzer", "get_financial_data", "commodity_price"}

InitTools ==
    /\ entry \in ToolNames
    /\ pc = "tool_call"
    /\ available_tools = RealRegistry
    /\ plan = <<>>
    /\ results = EmptyLedger
    /\ idx = 0
    /\ calls = <<>>
    /\ deterministic = FALSE
    /\ toolMemo = <<>>
    /\ callNo = 0
    /\ firstLedger = EmptyLedger
    /\ prepared = NotYet
    /\ query = NotYet
    /\ llm = NotYet
    /\ report = NotYet
    /\ final_response = NotYet
    /\ run_result = NotYet
    /\ exception = NotYet
    /\ tool_output = NotYet
    /\ runs = NotYet
    /\ web = NotYet
    /\ game = NotYet
    /\ CASE entry = "search" -> tool_arg \in Queries /\ world \in SearchWorlds
         [] entry = "calculator" -> tool_arg \in CalcExpressions(MaxExprLen) /\ world = NotYet
         [] entry = "text_analyzer" -> tool_arg \in Texts(MaxTextLen) /\ world = NotYet
         [] entry = "get_financial_data" -> tool_arg \in Symbols /\ world \in FinancialWorlds
         [] entry = "commodity_price" -> tool_arg \in Commodities /\ world \in FinancialWorlds

\* the tool returns output
ToolReturns(output) ==
    /\ pc = "tool_call"
    /\ pc' = "tool_returned"
    /\ tool_output' = output
    /\ UNCHANGED <<entry, available_tools, plan, results, idx, calls, deterministic,
                   toolMemo, callNo, firstLedger>>
    /\ UNCHANGED <<prepared, query, llm, report, final_response, run_result, exception,
                   tool_arg, world>>
    /\ UNCHANGED concVars
    /\ UNCHANGED serviceVars

CallSearch == entry = "search" /\ ToolReturns(search(tool_arg, world))
CallCalculator == entry = "calculator" /\ ToolReturns(calculator(tool_arg))
CallTextAnalyzer == entry = "text_analyzer" /\ ToolReturns(text_analyzer(tool_arg))
CallFinancialData ==
    entry = "get_financial_data" /\ ToolReturns(get_financial_data(tool_arg, world))
CallCommodityPrice ==
    entry = "commodity_price" /\ ToolReturns(commodity_price(tool_arg, world))

NextTools ==
    CallSearch \/ CallCalculator \/ CallTextAnalyzer \/ CallFinancialData
    \/ CallCommodityPrice

SpecTools == InitTools /\ [][NextTools]_vars

\* C11: every result a tool returns is a mapping with a success key, and a
\* result that carries an error has success false.
C11_EveryResultHasSuccess ==
    pc = "tool_returned" =>
        /\ "success" \in DictKeys(tool_output)
        /\ ("error" \in DictKeys(tool_output) => ~tool_output.success)

\* C14: the calculator rejects what is left with a disallowed character, and
\* an input without any digit returns success false.
C14_NoDigitNoSuccess ==
    (pc = "tool_returned" /\ entry = "calculator") =>
        /\ (\E i \in 1..Len(CalcClean(Strip(tool_arg))) :
               CalcClean(Strip(tool_arg))[i] \notin CalcAllowedChars)
           => (~tool_output.success /\ tool_output.error = InvalidCharacters)
        /\ (\A i \in 1..Len(tool_arg) : ~IsDigit(tool_arg[i])) => ~tool_output.success

\* the positions of text where a word starts: a character that is not
\* whitespace, at the start or after whitespace
WordStarts(text) ==
    {i \in 1..Len(text) : text[i] \notin Whitespace /\ (i = 1 \/ text[i - 1] \in Whitespace)}
\* the word of text that starts at position i
WordAt(text, i) ==
    SubSeq(text, i, CHOOSE j \in i..Len(text) :
                       /\ \A k \in i..j : text[k] \notin Whitespace
                       /\ (j = Len(text) \/ text[j + 1] \in Whitespace))

\* C15: text_analyzer returns the number of whitespace-separated words, the
\* number of characters, the number of distinct words compared without case
\* (at most the word count) and the first word of maximal length in text
\* order, the empty string when the text has no word; "Hello World" gives
\* 2, 11, 2 and "Hello".
C15_TextStatistics ==
    (pc = "tool_returned" /\ entry = "text_analyzer") =>
        LET starts == WordStarts(tool_arg)
        IN  /\ tool_output.word_count = Cardinality(starts)
            /\ tool_output.text_length = Len(tool_arg)
            /\ tool_output.unique_words =
                  Cardinality({Lower(WordAt(tool_arg, i)) : i \in starts})
            /\ tool_output.unique_words <= tool_output.word_count
            /\ IF starts = {} THEN tool_output.longest_word = <<>>
               ELSE \E i \in starts :
                      /\ tool_output.longest_word = WordAt(tool_arg, i)
                      /\ \A j \in starts :
                            /\ Len(WordAt(tool_arg, j)) <= Len(WordAt(tool_arg, i))
                            /\ j < i => Len(WordAt(tool_arg, j)) < Len(WordAt(tool_arg, i))
            /\ tool_arg = HelloWorld =>
                  /\ tool_output.word_count = 2
                  /\ tool_output.text_length = 11
                  /\ tool_output.unique_words = 2
                  /\ tool_output.longest_word = <<"H","e","l","l","o">>

\* the analysis of "Hello World", whose two words have the same length
C15_Witness ==
    /\ pc = "tool_returned"
    /\ entry = "text_analyzer"
    /\ tool_arg = HelloWorld
    /\ tool_output.longest_word = <<"H","e","l","l","o">>

(***************************************************************************)
(* validate_results called on its own, on ledgers of up to MaxLedger       *)
(* entries of which the first ones succeeded.                              *)
(***************************************************************************)
MaxLedger == 50

\* the ledger of total steps whose first successful ones succeeded
LedgerOf(successful, total) ==
    [n \in 1..total |->
        IF n <= successful
        THEN ExecutionResult(n, TRUE, StubOutput(<<"o","k">>, TRUE, TRUE), None)
        ELSE ExecutionResult(n, FALSE, NoneOutput, StubBoom)]

ValidateLedgers(n) == UNION { {LedgerOf(s, t) : s \in 0..t} : t \in 0..n }

InitValidate ==
    /\ entry = "validate_results"
    /\ pc = "validate_call"
    /\ available_tools = StubRegistry
    /\ plan \in {<<>>, <<PlanStep(1, Desc, "SEARCH", <<>>, <<>>)>>}
    /\ results \in ValidateLedgers(MaxLedger)
    /\ idx = 0
    /\ calls = <<>>
    /\ deterministic = FALSE
    /\ toolMemo = <<>>
    /\ callNo = 0
    /\ firstLedger = EmptyLedger
    /\ prepared = NotYet
    /\ query \in Queries
    /\ \E v \in RunValidatorBehaviours : llm = LLM(NotYet, v, NotYet)
    /\ report = NotYet
    /\ final_response = NotYet
    /\ run_result = NotYet
    /\ exception = NotYet
    /\ ToolsIdle

NextValidate == Validate

SpecValidate == InitValidate /\ [][NextValidate]_vars

\* C12: when the completion call or the parsing fails, the report has
\* confidence_score equal to the integer part of 100 * successful / total
\* (0 for an empty ledger) and recommends ACCEPT exactly when every entry
\* succeeded, RETRY_WITH_CAUTION otherwise; nothing is raised.
C12_FallbackConfidence ==
    (entry = "validate_results" /\ pc # "validate_call"
     /\ TryValidate(llm.validator).raises) =>
        LET successful_steps == Cardinality({n \in DOMAIN results : results[n].success})
            total_steps == Cardinality(DOMAIN results)
        IN  /\ pc = "validate_returned"
            /\ report.recommendation =
                  IF \A n \in DOMAIN results : results[n].success THEN ACCEPT
                  ELSE RETRY_WITH_CAUTION
            /\ report.confidence_score =
                  IF total_steps = 0 THEN 0 ELSE (100 * successful_steps) \div total_steps

\* C13: the Validator never blocks synthesis.  In a run, once execute_plan
\* has returned, no exception leaves validate_results, so that
\* synthesize_response is invoked whatever the report is; and what run
\* returns is what the Synthesizer makes of the query, the plan and the
\* ledger, whatever the report says.
C13_ValidatorNeverBlocksSynthesis ==
    entry = "run" =>
        /\ pc # "validate_raised"
        /\ (pc = "run_returned" /\ report # NotYet) =>
              \E r \in {synthesize_response(query, plan, results, llm.synthesizer)} :
                 run_result = [kind |-> "str",
                               text |-> IF r.raises THEN Apology \o r.message ELSE r.text]

\* the array the completion's answer parses to, or JNull when the answer is
\* no JSON array
AnsweredArray(behaviour) ==
    IF behaviour.raises \/ ~behaviour.content_is_str THEN JNull
    ELSE LET parsed == json_loads(ExtractJson(StripTokens(behaviour.content)))
         IN  IF ~parsed.raises /\ parsed.value.t = "arr" THEN parsed.value ELSE JNull

\* the member of ToolType an element declares, "unknown" when it names none
DeclaredTool(step_data) ==
    IF "tool" \notin DOMAIN step_data.v THEN "NONE"
    ELSE LET name == Upper(step_data.v.tool.v)
         IN  CASE name = <<"S","E","A","R","C","H">> -> "SEARCH"
               [] name = <<"C","A","L","C","U","L","A","T","O","R">> -> "CALCULATOR"
               [] name = <<"T","E","X","T","_","A","N","A","L","Y","Z","E","R">> -> "TEXT_ANALYZER"
               [] name = <<"F","I","N","A","N","C","I","A","L","_","D","A","T","A">> -> "FINANCIAL_DATA"
               [] name = <<"C","O","M","M","O","D","I","T","Y","_","P","R","I","C","E">> -> "COMMODITY_PRICE"
               [] name = <<"N","O","N","E">> -> "NONE"
               [] OTHER -> "unknown"

\* an array of step objects each of which names its tool, if at all, by a
\* string, and one of which names a tool that does not exist
NamesUnknownTool(arr) ==
    /\ arr # JNull
    /\ \A i \in 1..Len(arr.v) :
          /\ arr.v[i].t = "obj"
          /\ "tool" \in DOMAIN arr.v[i].v => arr.v[i].v.tool.t = "str"
    /\ \E i \in 1..Len(arr.v) : DeclaredTool(arr.v[i]) = "unknown"

\* C16: when the answer parses as an array of steps and a step names a tool
\* that does not exist, create_plan returns one PlanStep per element, in the
\* order of the array; the step with the unknown tool has required_tool NONE
\* and every other step keeps its declared tool, input and dependencies.
C16_UnknownToolCoerced ==
    (entry = "create_plan" /\ pc = "plan_returned") =>
        \A arr \in {AnsweredArray(llm.planner)} :
            NamesUnknownTool(arr) =>
                /\ Len(plan) = Len(arr.v)
                /\ \A i \in 1..Len(arr.v) :
                      /\ plan[i].required_tool =
                            IF DeclaredTool(arr.v[i]) = "unknown" THEN "NONE"
                            ELSE DeclaredTool(arr.v[i])
                      /\ plan[i].tool_input =
                            IF "input" \in DOMAIN arr.v[i].v THEN arr.v[i].v.input.v ELSE <<>>
                      /\ plan[i].dependencies =
                            IF "dependencies" \in DOMAIN arr.v[i].v
                            THEN [k \in 1..Len(arr.v[i].v.dependencies.v) |->
                                     arr.v[i].v.dependencies.v[k].v]
                            ELSE <<>>

\* the three-step plan whose second step names the tool web_browser
C16_Witness ==
    /\ entry = "create_plan" /\ pc = "plan_returned"
    /\ AnsweredArray(llm.planner) = UnknownToolPlan
    /\ Len(plan) = 3
    /\ plan[1].required_tool = "CALCULATOR"
    /\ plan[2].required_tool = "NONE"
    /\ plan[2].tool_input = ResultFromStep1
    /\ plan[3].required_tool = "TEXT_ANALYZER"
    /\ plan[3].dependencies = <<1, 2>>

\* C17: the step numbers of every plan create_plan returns are positive
\* integers and pairwise distinct.
C17_StepNumbersDistinct ==
    (entry = "create_plan" /\ pc = "plan_returned") =>
        /\ \A i \in 1..Len(plan) : plan[i].step_number_is_int /\ plan[i].step_number >= 1
        /\ \A i, j \in 1..Len(plan) : i # j => plan[i].step_number # plan[j].step_number

\* C18: the ledger is write-once.  During a run an entry, once stored, is
\* never replaced or modified by a later step or a later stage, and when
\* execute_plan has returned the ledger has one entry per step of the plan.
C18_LedgerWriteOnce ==
    /\ [][ entry = "run" =>
              \A n \in DOMAIN results : n \in DOMAIN results' /\ results'[n] = results[n]
         ]_vars
    /\ [](entry = "run" /\ pc = "exec_returned" => Cardinality(DOMAIN results) = Len(plan))

\* every declared dependency of the step has an entry with success = true
DependenciesMet(step, ledger) ==
    \A i \in 1..Len(step.dependencies) :
        /\ step.dependencies[i] \in DOMAIN ledger
        /\ ledger[step.dependencies[i]].success

\* C20: in execute_plan a tool is invoked for a step only if, at that
\* moment, every declared dependency of the step has a ledger entry with
\* success = true; an iteration for a step with a missing or failed
\* dependency invokes nothing and records the step as failed, with no
\* output.
C20_ToolOnlyAfterDependencies ==
    [][ (pc = "exec_loop" /\ idx <= Len(plan) /\ idx' = idx + 1) =>
           /\ calls' # calls => DependenciesMet(plan[idx], results)
           /\ ~DependenciesMet(plan[idx], results) =>
                 /\ calls' = calls
                 /\ plan[idx].step_number \in DOMAIN results'
                 /\ ~results'[plan[idx].step_number].success
                 /\ results'[plan[idx].step_number].output = NoneOutput
      ]_vars

\* execute_plan returned after it invoked a tool for a step whose
\* dependencies had succeeded and skipped a step that depends on a failed one
C20_Witness ==
    /\ entry = "execute_plan" /\ pc = "exec_returned"
    /\ \A i, j \in 1..Len(plan) : i # j => plan[i].step_number # plan[j].step_number
    /\ \E k \in 1..Len(calls) :
          /\ plan[calls[k].index].dependencies # <<>>
          /\ DependenciesMet(plan[calls[k].index], results)
    /\ \E i \in 1..Len(plan) :
          /\ plan[i].required_tool # "NONE"
          /\ \E d \in 1..Len(plan[i].dependencies) :
                /\ plan[i].dependencies[d] \in DOMAIN results
                /\ ~results[plan[i].dependencies[d]].success
          /\ \A k \in 1..Len(calls) : calls[k].index # i

(***************************************************************************)
(* Two threads call run on one MCPStyleAgent, the module-level instance of *)
(* the API.  The agent's components and the tool registry are shared; the  *)
(* query, the plan, the ledger and the loop position are locals of each    *)
(* call.  The tools of the plans are the in-process ones.                  *)
(***************************************************************************)
Threads == {1, 2}

\* mutant: the ledger is an attribute of the shared Executor
LedgerOwner_Shared(t) == 1

\* results is a local of execute_plan: each call has its own
LedgerOwner(t) == t

Ledger(t) == runs[LedgerOwner(t)].results

\* thread t moves on with the ledger it works on
Moved(t, pos, i, ledger) ==
    [runs EXCEPT ![t].pc = pos, ![t].idx = i, ![LedgerOwner(t)].results = ledger]

ConcUnchanged ==
    UNCHANGED <<entry, pc, available_tools, plan, results, idx, calls, deterministic,
                toolMemo, callNo, firstLedger, prepared, query, llm, report,
                final_response, run_result, exception, toolVars, serviceVars>>

\* one iteration of execute_plan's loop on a ledger, for tools that are
\* functions of their input
StepOutcome(step, ledger, registry) ==
    IF FirstBadDep(step, ledger) # 0
    THEN ExceptBranch(step, DependencyError(FirstBadDep(step, ledger)), ledger)
    ELSE LET tool_func == select_tool(step, registry)
             tool_input == validate_tool_input(step, ledger)
         IN  IF tool_func = NoTool
             THEN TryStore(step, PassThroughOutput(tool_input), ledger)
             ELSE LET o == CHOOSE x \in ToolOutcomes(tool_func, tool_input) : TRUE
                  IN  IF o.raises THEN ExceptBranch(step, o.message, ledger)
                      ELSE TryStore(step, o.output, ledger)

ConcPlan(t) ==
    /\ runs[t].pc = "plan_call"
    /\ runs' = [runs EXCEPT ![t].pc = "exec_call",
                            ![t].plan = create_plan(runs[t].query, runs[t].planner)]
    /\ ConcUnchanged

ConcExecBegin(t) ==
    /\ runs[t].pc = "exec_call"
    /\ runs' = Moved(t, "exec_loop", 1, ExecInitialLedger(Ledger(t)))
    /\ ConcUnchanged

ConcExecStep(t) ==
    /\ runs[t].pc = "exec_loop"
    /\ runs[t].idx <= Len(runs[t].plan)
    /\ \E r \in {StepOutcome(runs[t].plan[runs[t].idx], Ledger(t), available_tools)} :
          runs' = Moved(t, AfterStep(r), runs[t].idx + 1, r.results)
    /\ ConcUnchanged

ConcExecReturn(t) ==
    /\ runs[t].pc = "exec_loop"
    /\ runs[t].idx > Len(runs[t].plan)
    /\ runs' = [runs EXCEPT ![t].pc = "exec_returned", ![t].returned = Ledger(t)]
    /\ ConcUnchanged

ConcValidate(t) ==
    /\ runs[t].pc = "exec_returned"
    /\ \E r \in {validate_results(runs[t].query, runs[t].plan, runs[t].returned,
                                  runs[t].validator)} :
          runs' = IF r.raises
                  THEN [runs EXCEPT ![t].pc = "validate_raised", ![t].exception = r.message]
                  ELSE [runs EXCEPT ![t].pc = "synth_call"]
    /\ ConcUnchanged

ConcSynthesize(t) ==
    /\ runs[t].pc = "synth_call"
    /\ \E r \in {synthesize_response(runs[t].query, runs[t].plan, runs[t].returned,
                                     runs[t].synthesizer)} :
          runs' = IF r.raises
                  THEN [runs EXCEPT ![t].pc = "synth_raised", ![t].exception = r.message]
                  ELSE [runs EXCEPT ![t].pc = "run_returned",
                                    ![t].result = [kind |-> "str", text |-> r.text]]
    /\ ConcUnchanged

ConcExcept(t) ==
    /\ runs[t].pc \in {"exec_raised", "validate_raised", "synth_raised"}
    /\ \E o \in {RunExceptOutcome(IF runs[t].pc = "exec_raised" THEN UnhashableError
                                  ELSE runs[t].exception)} :
          runs' = [runs EXCEPT ![t].pc = o.pc, ![t].result = o.result]
    /\ ConcUnchanged

\* the plans the completion answers with: a calculation whose result the
\* next step passes through, a calculation that fails and a step whose
\* dependency does not exist, a calculation json.dumps refuses, and a step
\* number that is a list
ConcPlans ==
    { JArr(<< JObj([step |-> JNum(1), tool |-> JStr(<<"c","a","l","c","u","l","a","t","o","r">>), input |-> JStr(<<"1"," ","+"," ","1">>)]),
              JObj([step |-> JNum(2), tool |-> JStr(<<"n","o","n","e">>),
                    dependencies |-> JArr(<<JNum(1)>>), input |-> JStr(ResultFromStep1)]) >>),
      JArr(<< JObj([step |-> JNum(1), tool |-> JStr(<<"c","a","l","c","u","l","a","t","o","r">>), input |-> JStr(<<"1","/","0">>)]),
              JObj([step |-> JNum(2), tool |-> JStr(<<"c","a","l","c","u","l","a","t","o","r">>),
                    dependencies |-> JArr(<<JNum(3)>>), input |-> JStr(<<"1"," ","+"," ","1">>)]) >>),
      JArr(<< JObj([step |-> JNum(1), tool |-> JStr(<<"c","a","l","c","u","l","a","t","o","r">>), input |-> JStr(<<".",".",".">>)]) >>),
      JArr(<< JObj([step |-> JNum(2), tool |-> JStr(<<"c","a","l","c","u","l","a","t","o","r">>), input |-> JStr(<<"2"," ","*"," ","3">>)]),
              JObj([step |-> JArr(<<JNum(1)>>), tool |-> JStr(<<"n","o","n","e">>)]) >>) }

ConcPlannerBehaviours == {Raises} \cup {Answers(<<Json(a)>>) : a \in ConcPlans}

\* the synthesizer's completion fails or is a text
ConcSynthBehaviours == { Raises, Answers(<<" ","o","k","\n">>) }

InitConc ==
    /\ entry = "run"
    /\ pc = "threads"
    /\ available_tools = RealRegistry
    /\ plan = <<>>
    /\ results = EmptyLedger
    /\ idx = 0
    /\ calls = <<>>
    /\ deterministic = FALSE
    /\ toolMemo = <<>>
    /\ callNo = 0
    /\ firstLedger = EmptyLedger
    /\ prepared = NotYet
    /\ query = NotYet
    /\ llm = NotYet
    /\ report = NotYet
    /\ final_response = NotYet
    /\ run_result = NotYet
    /\ exception = NotYet
    /\ tool_arg = NotYet
    /\ world = NotYet
    /\ tool_output = NotYet
    /\ web = NotYet
    /\ game = NotYet
    /\ \E b \in [Threads -> ConcPlannerBehaviours], s \in [Threads -> ConcSynthBehaviours] :
          runs = [t \in Threads |->
                     [pc |-> "plan_call",
                      query |-> IF t = 1 THEN <<"h","i">> ELSE <<>>,
                      planner |-> b[t], validator |-> Raises, synthesizer |-> s[t],
                      plan |-> <<>>, results |-> EmptyLedger, idx |-> 0,
                      returned |-> EmptyLedger, exception |-> None, result |-> NotYet]]

NextConc ==
    \E t \in Threads :
        \/ ConcPlan(t)
        \/ ConcExecBegin(t)
        \/ ConcExecStep(t)
        \/ ConcExecReturn(t)
        \/ ConcValidate(t)
        \/ ConcSynthesize(t)
        \/ ConcExcept(t)

SpecConc == InitConc /\ [][NextConc]_vars

\* what execute_plan does alone with the steps from the i-th to the hi-th
RECURSIVE ExecuteAlone(_, _, _, _)
ExecuteAlone(steps, i, hi, ledger) ==
    IF i > hi THEN [results |-> ledger, propagates |-> FALSE]
    ELSE LET r == StepOutcome(steps[i], ledger, RealRegistry)
         IN  IF r.propagates THEN r ELSE ExecuteAlone(steps, i + 1, hi, r.results)

\* what run returns for the query when it runs alone
OutcomeAlone(q, planner, validator, synthesizer) ==
    LET steps == create_plan(q, planner)
        executed == ExecuteAlone(steps, 1, Len(steps), EmptyLedger)
        validated == validate_results(q, steps, executed.results, validator)
        synthesized == synthesize_response(q, steps, executed.results, synthesizer)
    IN  [kind |-> "str",
         text |-> IF executed.propagates THEN Apology \o UnhashableError
                  ELSE IF validated.raises THEN Apology \o validated.message
                  ELSE IF synthesized.raises THEN Apology \o synthesized.message
                  ELSE synthesized.text]

\* C19: two concurrent runs on one agent do not interfere.  Under every
\* interleaving the ledger of a run holds what its own plan's steps give when
\* executed alone up to the step the run is at, what a run returns is what it
\* returns when it runs alone, and no step of either run changes the tool
\* registry or a plan once it is made.
C19_RunsDoNotInterfere ==
    /\ [](\A t \in Threads :
             /\ runs[t].pc = "exec_loop" =>
                   /\ runs[t].results =
                         ExecuteAlone(runs[t].plan, 1, runs[t].idx - 1, EmptyLedger).results
                   /\ \A n \in DOMAIN runs[t].results :
                         \E i \in 1..Len(runs[t].plan) : runs[t].plan[i].step_number = n
             /\ runs[t].pc = "run_returned" =>
                   runs[t].result = OutcomeAlone(runs[t].query, runs[t].planner, runs[t].validator,
                                                 runs[t].synthesizer))
    /\ [][ /\ available_tools' = available_tools
           /\ \A t \in Threads :
                 runs[t].pc # "plan_call" => runs'[t].plan = runs[t].plan ]_vars

\* both runs are inside the loop of execute_plan, each past its step 1, and
\* the two ledgers hold different results under the same step number
C19_Witness ==
    /\ \A t \in Threads : runs[t].pc = "exec_loop" /\ runs[t].idx = 2
    /\ 1 \in DOMAIN runs[1].results /\ 1 \in DOMAIN runs[2].results
    /\ runs[1].results[1].output # runs[2].results[1].output

(***************************************************************************)
(* Failure isolation in Executor.execute_plan.  The plan is executed, and  *)
(* beside it the same plan on a ledger of its own in which the tool call   *)
(* of one chosen step returns instead of raising; every other tool call    *)
(* does the same in both.                                                  *)
(***************************************************************************)
\* one iteration of the for loop, where o is what the tool does if called
Iteration(step, ledger, registry, o) ==
    IF FirstBadDep(step, ledger) # 0
    THEN ExceptBranch(step, DependencyError(FirstBadDep(step, ledger)), ledger)
    ELSE LET tool_func == select_tool(step, registry)
             tool_input == validate_tool_input(step, ledger)
         IN  IF tool_func = NoTool
             THEN TryStore(step, PassThroughOutput(tool_input), ledger)
             ELSE IF o.raises THEN ExceptBranch(step, o.message, ledger)
                  ELSE TryStore(step, o.output, ledger)

\* the iteration gets as far as output = tool_func(tool_input)
ToolCalled(step, ledger, registry) ==
    FirstBadDep(step, ledger) = 0 /\ select_tool(step, registry) # NoTool

StubRaises == [raises |-> TRUE, message |-> StubBoom]
StubReturns == [raises |-> FALSE, output |-> StubOutput(<<"o","k">>, TRUE, TRUE)]
StubReportsFailure == [raises |-> FALSE, output |-> StubOutput(<<"n","o">>, FALSE, TRUE)]

IsoUnchanged ==
    UNCHANGED <<entry, available_tools, plan, calls, deterministic, toolMemo, callNo,
                firstLedger, prepared, query, llm, report, final_response, run_result,
                exception, toolVars, serviceVars>>

IsoBegin ==
    /\ entry = "execute_plan and twin"
    /\ pc = "exec_call"
    /\ pc' = "exec_loop"
    /\ results' = ExecInitialLedger(results)
    /\ idx' = 1
    /\ runs' = [runs EXCEPT !.twin = ExecInitialLedger(runs.twin)]
    /\ IsoUnchanged

\* an iteration in which the tool, if called, does the same on both sides
IsoStep ==
    /\ entry = "execute_plan and twin"
    /\ pc = "exec_loop"
    /\ idx <= Len(plan)
    /\ ~(idx = runs.chosen /\ ToolCalled(plan[idx], results, available_tools))
    /\ \E o \in {StubRaises, StubReturns, StubReportsFailure} :
       \E r \in {Iteration(plan[idx], results, available_tools, o)} :
       \E t \in {Iteration(plan[idx], runs.twin, available_tools, o)} :
          /\ results' = r.results
          /\ pc' = AfterStep(r)
          /\ runs' = [runs EXCEPT !.twin = t.results]
    /\ idx' = idx + 1
    /\ IsoUnchanged

\* the iteration of the chosen step: its tool call raises, and returns on
\* the twin's side
IsoFail ==
    /\ entry = "execute_plan and twin"
    /\ pc = "exec_loop"
    /\ idx <= Len(plan)
    /\ idx = runs.chosen
    /\ ToolCalled(plan[idx], results, available_tools)
    /\ \E r \in {Iteration(plan[idx], results, available_tools, StubRaises)} :
       \E t \in {Iteration(plan[idx], runs.twin, available_tools, StubReturns)} :
          /\ results' = r.results
          /\ pc' = AfterStep(r)
          /\ runs' = [runs EXCEPT !.twin = t.results, !.failed = TRUE]
    /\ idx' = idx + 1
    /\ IsoUnchanged

IsoReturn ==
    /\ entry = "execute_plan and twin"
    /\ pc = "exec_loop"
    /\ idx > Len(plan)
    /\ pc' = "exec_returned"
    /\ UNCHANGED <<results, idx, runs>>
    /\ IsoUnchanged

InitIso ==
    /\ entry = "execute_plan and twin"
    /\ pc = "exec_call"
    /\ available_tools = StubRegistry
    /\ plan \in SeqsUpTo(ExecSteps, MaxPlanLen)
    /\ results = EmptyLedger
    /\ idx = 0
    /\ calls = <<>>
    /\ deterministic = FALSE
    /\ toolMemo = <<>>
    /\ callNo = 0
    /\ firstLedger = EmptyLedger
    /\ prepared = NotYet
    /\ query = <<>>
    /\ llm = NotYet
    /\ report = NotYet
    /\ final_response = NotYet
    /\ run_result = NotYet
    /\ exception = NotYet
    /\ tool_arg = NotYet
    /\ world = NotYet
    /\ tool_output = NotYet
    /\ web = NotYet
    /\ game = NotYet
    /\ \E c \in 1..MaxPlanLen :
          /\ c <= Len(plan)
          /\ runs = [twin |-> EmptyLedger, chosen |-> c, failed |-> FALSE]

NextIso == IsoBegin \/ IsoStep \/ IsoFail \/ IsoReturn

SpecIso == InitIso /\ [][NextIso]_vars

\* the step numbers the numbers of S depend on, through the dependencies of
\* the first upto steps of p, in at most n rounds
RECURSIVE DependsOn(_, _, _, _)
DependsOn(p, upto, S, n) ==
    IF n = 0 THEN S
    ELSE DependsOn(p, upto,
                   S \cup UNION { {p[i].dependencies[k] : k \in 1..Len(p[i].dependencies)} :
                                     i \in {i \in 1..upto : p[i].step_number \in S} },
                   n - 1)

\* the j-th step depends, directly or through earlier steps, on the number
\* of the f-th
Depends(p, j, f) ==
    p[f].step_number \in
       DependsOn(p, j - 1, {p[j].dependencies[k] : k \in 1..Len(p[j].dependencies)}, Len(p))

\* C21: failure isolation.  When the tool call of a step raises, the step is
\* recorded with success false, no output and the exception's message as
\* error; no exception leaves execute_plan; the loop goes on to every later
\* step, so that the ledger returned has an entry for every step number of
\* the plan; and a later step that does not depend, directly or through
\* other steps, on the failed step is recorded exactly as it is when the
\* failed step's tool call returns instead.
C21_FailureIsolated ==
    entry = "execute_plan and twin" =>
       /\ pc # "exec_raised"
       /\ pc = "exec_loop" => idx \in 1..(Len(plan) + 1)
       /\ (runs.failed /\ idx = runs.chosen + 1) =>
             results[plan[runs.chosen].step_number] =
                ExecutionResult(plan[runs.chosen].step_number, FALSE, NoneOutput, StubBoom)
       /\ (runs.failed /\ idx > runs.chosen + 1 /\ ~Depends(plan, idx - 1, runs.chosen)) =>
             results[plan[idx - 1].step_number] = runs.twin[plan[idx - 1].step_number]
       /\ pc = "exec_returned" =>
             /\ idx = Len(plan) + 1
             /\ DOMAIN results = StepNumbers(plan)

\* the first step's tool call raised and is recorded as failed, on the
\* twin's side it succeeded, the second step depends on it and differs, and
\* the third, which does not, was executed and is the same on both sides
C21_Witness ==
    /\ entry = "execute_plan and twin" /\ pc = "exec_returned"
    /\ runs.failed /\ runs.chosen = 1 /\ Len(plan) = 3
    /\ plan[1].step_number = 1 /\ plan[2].step_number = 2 /\ plan[3].step_number = 3
    /\ Depends(plan, 2, 1) /\ ~Depends(plan, 3, 1)
    /\ ~results[1].success /\ runs.twin[1].success
    /\ ~results[2].success /\ runs.twin[2].success
    /\ results[3].success /\ results[3] = runs.twin[3]

\* the dependencies of the i-th step that no earlier step of the plan is
\* numbered as
NotYetExecuted(p, i) ==
    {k \in 1..Len(p[i].dependencies) :
        \A j \in 1..(i - 1) : p[j].step_number # p[i].dependencies[k]}

\* C22: execute_plan walks the plan in the order of the list, one step at a
\* time.  Every iteration handles the step at the loop's position and moves
\* to the next position, the tool invocations are made one per iteration
\* and in increasing plan position, and a step one of whose dependencies
\* is the number of no earlier step of the list is recorded as failed with
\* the dependency error for one of its dependencies, without a tool
\* invocation, also when that dependency is executed successfully later in
\* the plan.
C22_PlanOrderNotDependencyOrder ==
    /\ [](entry = "execute_plan" =>
             /\ \A i, j \in 1..Len(calls) : i < j => calls[i].index < calls[j].index
             /\ \A i \in 1..Len(calls) : calls[i].index < idx)
    /\ [][ (entry = "execute_plan" /\ pc = "exec_loop" /\ idx <= Len(plan)) =>
              /\ idx' = idx + 1
              /\ \/ calls' = calls
                 \/ /\ Len(calls') = Len(calls) + 1
                    /\ SubSeq(calls', 1, Len(calls)) = calls
                    /\ calls'[Len(calls')].index = idx
              /\ \A n \in DOMAIN results' :
                    n # plan[idx].step_number => /\ n \in DOMAIN results
                                                 /\ results'[n] = results[n]
              /\ NotYetExecuted(plan, idx) # {} =>
                    /\ calls' = calls
                    /\ \E k \in 1..Len(plan[idx].dependencies) :
                          results'[plan[idx].step_number] =
                             ExecutionResult(plan[idx].step_number, FALSE, NoneOutput,
                                             DependencyError(plan[idx].dependencies[k])) ]_vars

\* step 1 depends on step 2, which comes after it: step 1 is recorded as
\* failed for its dependency 2 and step 2 has been executed successfully
C22_Witness ==
    /\ entry = "execute_plan" /\ pc = "exec_returned"
    /\ Len(plan) = 2
    /\ plan[1].step_number = 1 /\ plan[1].dependencies = <<2>>
    /\ plan[2].step_number = 2 /\ plan[2].dependencies = <<>>
    /\ ~results[1].success /\ results[1].error = DependencyError(2)
    /\ results[2].success
    /\ Len(calls) = 1 /\ calls[1].index = 2

\* no tool call of the execution raised: no entry carries a tool's exception
NoToolRaised(ledger) == \A n \in DOMAIN ledger : ledger[n].error # StubBoom

RefersTo(input_str, d) ==
    \E i \in 1..Len(input_str) :
       /\ i + Len(Placeholder(d)) - 1 <= Len(input_str)
       /\ Lower(SubSeq(input_str, i, i + Len(Placeholder(d)) - 1)) = Placeholder(d)
       /\ (i + Len(Placeholder(d)) <= Len(input_str) =>
              ~IsDigit(input_str[i + Len(Placeholder(d))]))

\* C24: validate_tool_input substitutes a dependency's output only when the
\* step's tool_input refers to that dependency's own step number.  The
\* prepared input is either tool_input unchanged or the string form of the
\* output of a successful dependency that tool_input refers to; with
\* dependencies [1, 10], both successful, and a tool_input that refers to
\* step 10 only, it is step 10's output; and when tool_input refers to no
\* dependency it is tool_input.
C24_OwnStepNumberOnly ==
    (entry = "validate_tool_input" /\ pc = "prep_returned") =>
       LET step == plan[1]
           referred == {k \in 1..Len(step.dependencies) :
                           /\ step.dependencies[k] \in DOMAIN results
                           /\ results[step.dependencies[k]].success
                           /\ RefersTo(step.tool_input, step.dependencies[k])}
       IN  /\ \/ prepared.text = step.tool_input
              \/ \E k \in referred :
                    prepared.text = PyStr(results[step.dependencies[k]].output)
           /\ (/\ step.dependencies = <<1, 10>>
               /\ {1, 10} \subseteq DOMAIN results
               /\ results[1].success /\ results[10].success
               /\ RefersTo(step.tool_input, 10) /\ ~RefersTo(step.tool_input, 1)) =>
                  prepared.text = PyStr(results[10].output)
           /\ (\A k \in 1..Len(step.dependencies) :
                  ~RefersTo(step.tool_input, step.dependencies[k])) =>
                  prepared.text = step.tool_input

\* the class of a token in the restricted grammar: a numeric literal, a
\* sign (also the binary + and -), a binary operator, a parenthesis, or
\* none of these
TokenClass(tok) ==
    CASE tok.t = "num" -> "NUM"
      [] tok.t = "op" /\ tok.op \in {"+", "-"} -> "SIGN"
      [] tok.t = "op" /\ tok.op \in {"*", "/"} -> "BINOP"
      [] tok.t = "op" /\ tok.op = "(" -> "LP"
      [] tok.t = "op" /\ tok.op = ")" -> "RP"
      [] OTHER -> "OTHER"

\* the parentheses opened and not closed among the first n tokens
RECURSIVE Depth(_, _)
Depth(ts, n) ==
    IF n = 0 THEN 0
    ELSE Depth(ts, n - 1) + (IF TokenClass(ts[n]) = "LP" THEN 1
                             ELSE IF TokenClass(ts[n]) = "RP" THEN 0 - 1 ELSE 0)

\* expr ::= term (("+" | "-") term)*, term ::= factor (("*" | "/") factor)*,
\* factor ::= ("+" | "-") factor | literal | "(" expr ")": an operand is
\* expected at the start and after an operator or "(", an operator or ")"
\* after an operand, and the parentheses match
InGrammar(s) ==
    LET ts == PyTokens(s, 1)
        operand_next(c) == c \in {"SIGN", "BINOP", "LP"}
    IN  /\ ts # <<>>
        /\ \A i \in 1..Len(ts) : TokenClass(ts[i]) # "OTHER"
        /\ TokenClass(ts[1]) \in {"NUM", "SIGN", "LP"}
        /\ TokenClass(ts[Len(ts)]) \in {"NUM", "RP"}
        /\ \A i \in 1..(Len(ts) - 1) :
              IF operand_next(TokenClass(ts[i]))
              THEN TokenClass(ts[i + 1]) \in {"NUM", "SIGN", "LP"}
              ELSE TokenClass(ts[i + 1]) \in {"SIGN", "BINOP", "RP"}
        /\ \A n \in 1..Len(ts) : Depth(ts, n) >= 0
        /\ Depth(ts, Len(ts)) = 0

\* C25: the calculator returns success true only for an expression of the
\* restricted grammar: numeric literals, the binary operators + - * /, the
\* unary sign and parentheses.  Every other string, such as one with the
\* operator ** or //, gives success false.
C25_RestrictedGrammarOnly ==
    (pc = "tool_returned" /\ entry = "calculator" /\ tool_output.success) =>
        InGrammar(CalcClean(Strip(tool_arg)))

\* C26: in every plan create_plan returns, each dependency of a step is the
\* step number of a step that stands earlier in the list: never the step
\* itself, a later step or a number no step has.
C26_DependenciesPointBack ==
    (entry = "create_plan" /\ pc = "plan_returned") =>
        \A i \in 1..Len(plan) : \A k \in 1..Len(plan[i].dependencies) :
           \E j \in 1..(i - 1) :
              /\ plan[j].step_number_is_int
              /\ plan[j].step_number = plan[i].dependencies[k]

(***************************************************************************)
(* WebSearchService.search(query, max_results, retries).  The provider is  *)
(* DDGS().text; the clock is time.time() in whole seconds and time.sleep   *)
(* advances it.                                                            *)
(***************************************************************************)
MinDelay == 2
BackoffStep == 5
ShortWait == 2
DefaultRetries == 3
MaxRetries == 4

\* "ratelimit" in error_msg.lower() or "202" in error_msg
RateLimited(error_msg) ==
    \/ Contains(<<"r","a","t","e","l","i","m","i","t">>, Lower(error_msg))
    \/ Contains(<<"2","0","2">>, error_msg)

\* mutant: the wait is made after the last attempt too
BackoffWait_AlsoLast(attempt, retries, error_msg) ==
    IF RateLimited(error_msg) THEN (attempt + 1) * BackoffStep ELSE ShortWait

\* the seconds slept in the except branch, 0 when it does not sleep
BackoffWait(attempt, retries, error_msg) ==
    IF RateLimited(error_msg)
    THEN IF attempt < retries - 1 THEN (attempt + 1) * BackoffStep ELSE 0
    ELSE IF attempt < retries - 1 THEN ShortWait ELSE 0

\* result.get(key, "")
ResultGet(result, key) == IF key \in DOMAIN result THEN result[key] ELSE <<>>

\* the list built from search_results
Converted(search_results) ==
    [i \in 1..Len(search_results) |->
        [title |-> ResultGet(search_results[i], "title"),
         snippet |-> ResultGet(search_results[i], "body"),
         link |-> ResultGet(search_results[i], "href")]]

\* what a call of the provider may do
ProviderOutcomes ==
    { [raises |-> TRUE, message |-> <<"2","0","2"," ","R","a","t","e","l","i","m","i","t">>],
      [raises |-> TRUE, message |-> <<"R","a","t","e","L","i","m","i","t"," ","e","x","c","e","e","d","e","d">>],
      [raises |-> TRUE, message |-> TimedOut],
      [raises |-> FALSE, results |-> <<>>],
      [raises |-> FALSE,
       results |-> << [title |-> <<"t">>, body |-> <<"b">>, href |-> <<"h">>],
                      [title |-> <<"u">>] >>] }

\* the seconds a call of the provider takes
ProviderSeconds == {0, 1}

\* for attempt in range(retries): the body is entered or the loop is over
\* and the return [] after it is reached
WsLoopHead(attempt, retries) == IF attempt < retries THEN "ws_rate_limit" ELSE "ws_returned"

WsUnchanged ==
    UNCHANGED <<entry, available_tools, plan, results, idx, calls, deterministic,
                toolMemo, callNo, firstLedger, prepared, query, llm, report,
                final_response, run_result, exception, toolVars, concVars, game>>

\* search is entered
WsCall ==
    /\ entry = "WebSearchService.search"
    /\ pc = "ws_call"
    /\ pc' = WsLoopHead(0, web.retries)
    /\ web' = [web EXCEPT !.attempt = 0, !.result = <<>>]
    /\ WsUnchanged

\* self._apply_rate_limit()
WsApplyRateLimit ==
    /\ pc = "ws_rate_limit"
    /\ LET time_since_last == web.now - web.last_request_time
           sleep_time == IF time_since_last < MinDelay THEN MinDelay - time_since_last ELSE 0
       IN  web' = [web EXCEPT !.now = web.now + sleep_time,
                              !.last_request_time = web.now + sleep_time,
                              !.slept = web.slept + sleep_time]
    /\ pc' = "ws_provider"
    /\ WsUnchanged

\* DDGS().text(query, max_results=max_results) and the conversion of what
\* it returns, or the exception it raises
WsProviderCall ==
    /\ pc = "ws_provider"
    /\ \E o \in ProviderOutcomes, d \in ProviderSeconds :
          /\ web' = [web EXCEPT !.now = web.now + d,
                                !.call_end = web.now + d,
                                !.outcomes = Append(web.outcomes, o),
                                !.result = IF o.raises THEN web.result ELSE Converted(o.results)]
          /\ pc' = IF o.raises THEN "ws_failed" ELSE "ws_returned"
    /\ WsUnchanged

\* except Exception as e: sleep and continue, or return []
WsExcept ==
    /\ pc = "ws_failed"
    /\ LET error_msg == web.outcomes[Len(web.outcomes)].message
           wait_time == BackoffWait(web.attempt, web.retries, error_msg)
       IN  /\ web' = [web EXCEPT !.now = web.now + wait_time,
                                 !.backoff = Append(web.backoff, wait_time),
                                 !.attempt = web.attempt + 1,
                                 !.result = <<>>]
           /\ pc' = IF RateLimited(error_msg) \/ web.attempt < web.retries - 1
                    THEN WsLoopHead(web.attempt + 1, web.retries)
                    ELSE "ws_returned"
    /\ WsUnchanged

\* the service was just constructed, or has made its last request a while
\* or a moment ago
InitSearch ==
    /\ entry = "WebSearchService.search"
    /\ pc = "ws_call"
    /\ available_tools = RealRegistry
    /\ plan = <<>>
    /\ results = EmptyLedger
    /\ idx = 0
    /\ calls = <<>>
    /\ deterministic = FALSE
    /\ toolMemo = <<>>
    /\ callNo = 0
    /\ firstLedger = EmptyLedger
    /\ prepared = NotYet
    /\ query = <<"h","i">>
    /\ llm = NotYet
    /\ report = NotYet
    /\ final_response = NotYet
    /\ run_result = NotYet
    /\ exception = NotYet
    /\ tool_arg = NotYet
    /\ world = NotYet
    /\ tool_output = NotYet
    /\ runs = NotYet
    /\ game = NotYet
    /\ \E n \in 0..MaxRetries, last \in {0, 8, 9, 10} :
          web = [retries |-> n, attempt |-> 0, now |-> 10, last_request_time |-> last,
                 outcomes |-> <<>>, backoff |-> <<>>, slept |-> 0, call_end |-> 10,
                 result |-> NotYet]

NextSearch == WsCall \/ WsApplyRateLimit \/ WsProviderCall \/ WsExcept

\* the thread that runs search is scheduled until search returns: sleep
\* returns and the provider call returns or raises
SpecSearch == InitSearch /\ [][NextSearch]_vars /\ WF_vars(NextSearch)

\* C27: search(query, retries = n) retries a bounded number of times with
\* backoff.  It calls the provider at most n times, every call before the
\* last one failed, and when a call succeeds its results are returned;
\* after the n-th failed call, or when n is 0, the empty list is returned.
\* After a failed attempt (counted from 0) that is not the last it waits
\* (attempt + 1) * 5 seconds when the failure is a rate limit and 2 seconds
\* otherwise; after the last attempt it does not wait, and the time at which
\* it returns is the time the last provider call ended.  It always returns.
C27_BoundedRetryWithBackoff ==
    /\ [](entry = "WebSearchService.search" =>
            /\ Len(web.outcomes) <= web.retries
            /\ \A i \in 1..(Len(web.outcomes) - 1) : web.outcomes[i].raises
            /\ Len(web.backoff) <= Len(web.outcomes)
            /\ \A i \in 1..Len(web.backoff) :
                  /\ web.outcomes[i].raises
                  /\ web.backoff[i] =
                        IF i - 1 >= web.retries - 1 THEN 0
                        ELSE IF RateLimited(web.outcomes[i].message) THEN ((i - 1) + 1) * 5
                        ELSE 2
            /\ pc = "ws_returned" =>
                  /\ IF web.outcomes # <<>> /\ ~web.outcomes[Len(web.outcomes)].raises
                     THEN /\ web.result = Converted(web.outcomes[Len(web.outcomes)].results)
                          /\ Len(web.backoff) = Len(web.outcomes) - 1
                     ELSE /\ web.result = <<>>
                          /\ Len(web.outcomes) = web.retries
                          /\ Len(web.backoff) = web.retries
                  /\ web.outcomes # <<>> => web.now = web.call_end)
    /\ <>(pc = "ws_returned")

\* three attempts failed: a rate limit, another error and a rate limit; the
\* waits were 5 and 2 seconds and none after the third, and the empty list
\* is returned
C27_Witness ==
    /\ entry = "WebSearchService.search" /\ pc = "ws_returned"
    /\ web.retries = DefaultRetries
    /\ Len(web.outcomes) = 3
    /\ \A i \in 1..3 : web.outcomes[i].raises
    /\ RateLimited(web.outcomes[1].message)
    /\ ~RateLimited(web.outcomes[2].message)
    /\ RateLimited(web.outcomes[3].message)
    /\ web.backoff = <<5, 2, 0>>
    /\ web.result = <<>>

\* C28: the report of the Validator's except branch is consistent for every
\* ledger, the empty one included: valid is true exactly when the
\* recommendation is ACCEPT, exactly when confidence_score is 100, exactly
\* when warnings is empty.
C28_FallbackReportConsistent ==
    (entry = "validate_results" /\ pc = "validate_returned"
     /\ TryValidate(llm.validator).raises) =>
        /\ report.valid <=> (report.recommendation = ACCEPT)
        /\ (report.recommendation = ACCEPT) <=> (report.confidence_score = 100)
        /\ (report.confidence_score = 100) <=> (report.warnings = <<>>)

(***************************************************************************)
(* The tic-tac-toe game: TicTacToeGame, TicTacToeAgent and the API.  The   *)
(* board is the list of 9 cells; position p is cell p + 1 of the sequence. *)
(***************************************************************************)
Blank == " "
NoWinner == "None"
Positions == (0 - 1)..9

TicTacToeGame == [board |-> [i \in 1..9 |-> Blank], current_player |-> "X",
                  game_over |-> FALSE, winner |-> NoWinner]

winning_combos == << <<0, 1, 2>>, <<3, 4, 5>>, <<6, 7, 8>>,
                     <<0, 3, 6>>, <<1, 4, 7>>, <<2, 5, 8>>,
                     <<0, 4, 8>>, <<2, 4, 6>> >>

\* get_available_moves, in increasing order
get_available_moves(board) == {i \in 0..8 : board[i + 1] = Blank}

\* the least element of a non-empty set of positions: the first of the list
FirstOf(S) == CHOOSE i \in S : \A j \in S : i <= j

\* TicTacToeGame.make_move
make_move(g, position, player) ==
    IF position < 0 \/ position > 8 THEN [game |-> g, ok |-> FALSE]
    ELSE IF g.board[position + 1] # Blank THEN [game |-> g, ok |-> FALSE]
    ELSE [game |-> [g EXCEPT !.board[position + 1] = player], ok |-> TRUE]

Wins(board, k) ==
    /\ board[winning_combos[k][1] + 1] = board[winning_combos[k][2] + 1]
    /\ board[winning_combos[k][2] + 1] = board[winning_combos[k][3] + 1]
    /\ board[winning_combos[k][1] + 1] # Blank

\* mutant: a full board without a line is not a draw
check_winner_NoDraw(board) ==
    IF \E k \in 1..Len(winning_combos) : Wins(board, k)
    THEN board[winning_combos[FirstOf({k \in 1..Len(winning_combos) : Wins(board, k)})][1] + 1]
    ELSE NoWinner

\* TicTacToeGame.check_winner
check_winner(board) ==
    IF \E k \in 1..Len(winning_combos) : Wins(board, k)
    THEN board[winning_combos[FirstOf({k \in 1..Len(winning_combos) : Wins(board, k)})][1] + 1]
    ELSE IF \A i \in 1..9 : board[i] # Blank THEN "Draw"
    ELSE NoWinner

\* TicTacToeGame.update_game_state
update_game_state(g) ==
    LET result == check_winner(g.board)
    IN  IF result # NoWinner THEN [g EXCEPT !.game_over = TRUE, !.winner = result] ELSE g

\* values.count(player) == 2 and values.count(' ') == 1
Completes(board, k, player) ==
    /\ Cardinality({n \in 1..3 : board[winning_combos[k][n] + 1] = player}) = 2
    /\ Cardinality({n \in 1..3 : board[winning_combos[k][n] + 1] = Blank}) = 1

\* TicTacToeGame.find_winning_move: a position, or None
find_winning_move(board, player) ==
    IF \E k \in 1..Len(winning_combos) : Completes(board, k, player)
    THEN LET combo == winning_combos[FirstOf({k \in 1..Len(winning_combos) :
                                                Completes(board, k, player)})]
         IN  [found |-> TRUE,
              position |-> combo[FirstOf({n \in 1..3 : board[combo[n] + 1] = Blank})]]
    ELSE [found |-> FALSE]

\* mutant: the move is made on a finished game too
make_human_move_AfterGameOver(g, position) ==
    IF position < 0 \/ position > 8
    THEN [game |-> g, success |-> FALSE, message |-> "Invalid position. Must be 0-8."]
    ELSE IF g.board[position + 1] # Blank
    THEN [game |-> g, success |-> FALSE, message |-> "Position already taken."]
    ELSE LET moved == update_game_state(make_move(g, position, "X").game)
         IN  [game |-> moved, success |-> TRUE,
              message |-> IF moved.game_over THEN "Move made" ELSE "Move made. AI's turn."]

\* TicTacToeAgent.make_human_move
make_human_move(g, position) ==
    IF g.game_over
    THEN [game |-> g, success |-> FALSE, message |-> "Game is over. Start a new game."]
    ELSE IF position < 0 \/ position > 8
    THEN [game |-> g, success |-> FALSE, message |-> "Invalid position. Must be 0-8."]
    ELSE IF g.board[position + 1] # Blank
    THEN [game |-> g, success |-> FALSE, message |-> "Position already taken."]
    ELSE LET moved == update_game_state(make_move(g, position, "X").game)
         IN  [game |-> moved, success |-> TRUE,
              message |-> IF moved.game_over THEN "Move made" ELSE "Move made. AI's turn."]

corners == <<0, 2, 6, 8>>

\* the position the strategy of make_ai_move chooses; available[0] of an
\* empty list raises IndexError
ChooseAiPosition(board) ==
    LET winning_move == find_winning_move(board, "O")
        blocking_move == find_winning_move(board, "X")
        available == get_available_moves(board)
    IN  IF winning_move.found THEN [raises |-> FALSE, position |-> winning_move.position]
        ELSE IF blocking_move.found THEN [raises |-> FALSE, position |-> blocking_move.position]
        ELSE IF 4 \in available THEN [raises |-> FALSE, position |-> 4]
        ELSE IF \E n \in 1..Len(corners) : corners[n] \in available
        THEN [raises |-> FALSE,
              position |-> corners[FirstOf({n \in 1..Len(corners) : corners[n] \in available})]]
        ELSE IF available # {} THEN [raises |-> FALSE, position |-> FirstOf(available)]
        ELSE [raises |-> TRUE]

\* TicTacToeAgent.make_ai_move
make_ai_move(g) ==
    IF g.game_over
    THEN [game |-> g, raises |-> FALSE, success |-> FALSE, message |-> "Game is over.",
          ai_position |-> [found |-> FALSE]]
    ELSE LET chosen == ChooseAiPosition(g.board)
         IN  IF chosen.raises
             THEN [game |-> g, raises |-> TRUE, success |-> FALSE,
                   message |-> "IndexError", ai_position |-> [found |-> FALSE]]
             ELSE [game |-> update_game_state(make_move(g, chosen.position, "O").game),
                   raises |-> FALSE, success |-> TRUE, message |-> "AI made a move",
                   ai_position |-> [found |-> TRUE, position |-> chosen.position]]

GameUnchanged ==
    UNCHANGED <<entry, pc, available_tools, plan, results, idx, calls, deterministic,
                toolMemo, callNo, firstLedger, prepared, query, llm, report,
                final_response, run_result, exception, toolVars, concVars, web>>

\* the call made last, the game it was made on and what it answered
Call(op, position, before, success, message) ==
    [op |-> op, position |-> position, before |-> before, success |-> success,
     message |-> message]

\* agent.make_human_move(position)
HumanMove ==
    /\ entry = "TicTacToeAgent"
    /\ \E position \in Positions :
          LET r == make_human_move(game.g, position)
          IN  game' = [game EXCEPT !.g = r.game,
                          !.last = Call("make_human_move", position, game.g, r.success, r.message)]
    /\ GameUnchanged

\* agent.make_ai_move()
AiMove ==
    /\ entry = "TicTacToeAgent"
    /\ LET r == make_ai_move(game.g)
       IN  game' = [game EXCEPT !.g = r.game,
                       !.last = Call("make_ai_move", 0, game.g, r.success, r.message)]
    /\ GameUnchanged

\* agent.reset_game()
ResetGame ==
    /\ entry = "TicTacToeAgent"
    /\ game' = [game EXCEPT !.g = TicTacToeGame,
                   !.last = Call("reset_game", 0, game.g, TRUE, "reset")]
    /\ GameUnchanged

\* every variable of the other specifications at rest
GameIdle ==
    /\ pc = "idle"
    /\ available_tools = RealRegistry
    /\ plan = <<>>
    /\ results = EmptyLedger
    /\ idx = 0
    /\ calls = <<>>
    /\ deterministic = FALSE
    /\ toolMemo = <<>>
    /\ callNo = 0
    /\ firstLedger = EmptyLedger
    /\ prepared = NotYet
    /\ query = <<"h","i">>
    /\ llm = NotYet
    /\ report = NotYet
    /\ final_response = NotYet
    /\ run_result = NotYet
    /\ exception = NotYet
    /\ tool_arg = NotYet
    /\ world = NotYet
    /\ tool_output = NotYet
    /\ runs = NotYet
    /\ web = NotYet

\* TicTacToeAgent()
InitGame ==
    /\ entry = "TicTacToeAgent"
    /\ game = [session |-> TRUE, g |-> TicTacToeGame,
               last |-> Call("__init__", 0, TicTacToeGame, TRUE, "new")]
    /\ GameIdle

NextGame == HumanMove \/ AiMove \/ ResetGame

SpecGame == InitGame /\ [][NextGame]_vars

\* C29: over any sequence of make_human_move and make_ai_move calls, with
\* positions inside and outside 0..8, a cell that holds X or O keeps its
\* mark; once game_over is true no call changes the board, game_over or
\* winner; and a make_human_move with a position outside 0..8, on an
\* occupied cell or on a finished game answers success = False and leaves
\* the whole game as it was.  Only reset_game clears cells.
C29_MarksAndFinishedGamesStay ==
    [][(entry = "TicTacToeAgent" /\ game'.last.op # "reset_game") =>
          /\ \A i \in 1..9 : game.g.board[i] # Blank => game'.g.board[i] = game.g.board[i]
          /\ game.g.game_over =>
                /\ game'.g.board = game.g.board
                /\ game'.g.game_over
                /\ game'.g.winner = game.g.winner
                /\ ~game'.last.success
          /\ (/\ game'.last.op = "make_human_move"
              /\ \/ game'.last.position \notin 0..8
                 \/ game.g.board[game'.last.position + 1] # Blank
                 \/ game.g.game_over) =>
                /\ game'.g = game.g
                /\ ~game'.last.success]_vars

\* O has won; a human move on a free cell of the finished game is rejected
\* and the game is as it was
C29_Witness ==
    /\ entry = "TicTacToeAgent"
    /\ game.last.op = "make_human_move"
    /\ game.last.position \in 0..8
    /\ game.last.before.game_over /\ game.last.before.winner = "O"
    /\ game.last.before.board[game.last.position + 1] = Blank
    /\ ~game.last.success
    /\ game.g = game.last.before

(***************************************************************************)
(* The API of the game: POST /new, /move and /reset of one user.  A        *)
(* handler has no await, so a request runs from its first line to its      *)
(* return.                                                                 *)
(***************************************************************************)
\* the request made last, the game it found and what the two moves answered
Request(op, position, before, human, ai) ==
    [op |-> op, position |-> position, before |-> before, human |-> human, ai |-> ai]

NotCalled == [called |-> FALSE]

\* game_sessions[user_id], or a new TicTacToeAgent when the user has none
SessionGame == IF game.session THEN game.g ELSE TicTacToeGame

\* POST /new
new_game ==
    /\ entry = "tictactoe API"
    /\ game' = [session |-> TRUE, g |-> TicTacToeGame,
                last |-> Request("new", 0, SessionGame, NotCalled, NotCalled)]
    /\ GameUnchanged

\* POST /move: make_human_move and, when the move was made and the game goes
\* on, make_ai_move
api_make_move ==
    /\ entry = "tictactoe API"
    /\ \E position \in Positions :
          LET human_result == make_human_move(SessionGame, position)
              ai_result == make_ai_move(human_result.game)
              human == [called |-> TRUE, success |-> human_result.success,
                        game_over |-> human_result.game.game_over]
          IN  IF ~human_result.success \/ human_result.game.game_over
              THEN game' = [session |-> TRUE, g |-> human_result.game,
                            last |-> Request("move", position, SessionGame, human, NotCalled)]
              ELSE game' = [session |-> TRUE, g |-> ai_result.game,
                            last |-> Request("move", position, SessionGame, human,
                                             [called |-> TRUE, raises |-> ai_result.raises,
                                              success |-> ai_result.success,
                                              ai_position |-> ai_result.ai_position])]
    /\ GameUnchanged

\* POST /reset
reset_game ==
    /\ entry = "tictactoe API"
    /\ game' = [session |-> TRUE, g |-> TicTacToeGame,
                last |-> Request("reset", 0, SessionGame, NotCalled, NotCalled)]
    /\ GameUnchanged

\* game_sessions = {}
InitApi ==
    /\ entry = "tictactoe API"
    /\ game = [session |-> FALSE, g |-> TicTacToeGame,
               last |-> Request("import", 0, TicTacToeGame, NotCalled, NotCalled)]
    /\ GameIdle

NextApi == new_game \/ api_make_move \/ reset_game

SpecApi == InitApi /\ [][NextApi]_vars

\* the number of cells of the board that hold the mark
Marks(board, mark) == Cardinality({i \in 1..9 : board[i] = mark})

\* C30: for a game driven through the API only, after every request the
\* number of X marks minus the number of O marks is 0 or 1, and it is 1
\* only when the game is over.  A move request whose human move is made
\* and does not end the game calls make_ai_move once; that call raises
\* nothing and puts one O on a cell that was free, so the request adds one
\* X and one O.
C30_MarksBalancedAfterRequests ==
    entry = "tictactoe API" =>
        /\ Marks(game.g.board, "X") - Marks(game.g.board, "O") \in {0, 1}
        /\ Marks(game.g.board, "X") - Marks(game.g.board, "O") = 1 => game.g.game_over
        /\ (game.last.op = "move" /\ game.last.human.success /\ ~game.last.human.game_over) =>
              /\ game.last.ai.called
              /\ ~game.last.ai.raises
              /\ game.last.ai.success
              /\ game.last.ai.ai_position.found
              /\ game.last.before.board[game.last.ai.ai_position.position + 1] = Blank
              /\ game.last.ai.ai_position.position # game.last.position
              /\ game.g.board[game.last.ai.ai_position.position + 1] = "O"
              /\ Marks(game.g.board, "X") = Marks(game.last.before.board, "X") + 1
              /\ Marks(game.g.board, "O") = Marks(game.last.before.board, "O") + 1

\* the third human move of a game was answered by the AI's third move and
\* the game goes on
C30_Witness ==
    /\ entry = "tictactoe API"
    /\ game.last.op = "move"
    /\ game.last.human.success
    /\ game.last.ai.called /\ game.last.ai.success
    /\ Marks(game.g.board, "X") = 3
    /\ Marks(game.g.board, "O") = 3
    /\ ~game.g.game_over

====
